---- MODULE Spec2Model ----
(***************************************************************************)
(* State-machine model of pyclashbot/bot/fight.py: the opponent tracker,   *)
(* the tactical analyzer, the card selector and the battle engine's        *)
(* per-cycle control loop.                                                 *)
(*                                                                         *)
(* Time is counted in hundredths of a second (0.5 s = 50, 30 s = 3000).    *)
(* A Python call that can raise is modelled by an operator returning       *)
(* [ok, val, exc]: ok = TRUE and the value, or ok = FALSE, the name of the *)
(* exception and whatever state the call had written before raising.       *)
(***************************************************************************)
EXTENDS Integers, Sequences, FiniteSets, TLC

VARIABLES
    \* the clock and the environment
    now,                    \* time.time()
    hand,                   \* what check_which_cards_are_available answers
    hand_changes,           \* how often that answer has changed so far
    env_failed,             \* a collaborator raised during the current call
    iar,                    \* the frame emulator.screenshot() returned last to
                            \* scan_battlefield, and when
    \* EnemyTracker / GameState
    enemy_units, pressure_lanes, our_elixir, enemy_elixir_estimate,
    our_tower_health, enemy_tower_health, last_enemy_plays, last_scan_time,
    \* EliteCardSelector
    recent_cards,
    \* MasterBattleEngine.battle_memory
    successful_plays, failed_plays, opponent_weaknesses,
    \* the call in progress
    pc,                     \* position in the running call, "idle" between calls
    entry,                  \* which operation the caller invoked last
    result,                 \* what it returned: "none", "true", "false", "raised"
    exc,                    \* the exception raised last, "none" if none
    battle_start_time, battle_elapsed, analysis, decision, success,
    recording_flag,         \* the recording_flag argument of the battle
    supplied,               \* the analysis a test double of analyze_situation
                            \* returns; present = FALSE: the real analyzer runs
    cycles,                 \* cycles started in the current battle
    battles,                \* battles started on this engine
    \* observation of the run
    taps,                   \* the taps sent to the executor in the current cycle
    dispatched,             \* Decisions whose execution routine returned
    records,                \* play records made since construction
    selects,                \* select_optimal_card calls made so far
    selected                \* outcome of the last select_optimal_card call

envVars     == <<now, hand, hand_changes, env_failed, iar>>
trackerVars == <<enemy_units, pressure_lanes, our_elixir, enemy_elixir_estimate,
                 our_tower_health, enemy_tower_health, last_enemy_plays,
                 last_scan_time>>
gameVars    == <<enemy_units, pressure_lanes, our_elixir, enemy_elixir_estimate,
                 our_tower_health, enemy_tower_health, last_enemy_plays>>
memoryVars  == <<successful_plays, failed_plays, opponent_weaknesses>>
callVars    == <<pc, entry, result, exc, battle_start_time, battle_elapsed,
                 analysis, decision, success, recording_flag, supplied, cycles,
                 battles>>
ghostVars   == <<taps, dispatched, records, selects, selected>>
vars        == <<envVars, trackerVars, recent_cards, memoryVars, callVars, ghostVars>>

----------------------------------------------------------------------------
(* Bounds of the model *)

MaxCycles == 2          \* cycles per battle
MaxLongCycles == 32     \* cycles per battle in the long-battle specification
MaxBattles == 2         \* battles run on one engine
MaxHandChanges == 1     \* changes of the available-slot answer in one run
MaxNeeds == 6           \* defensive needs in one analysis handed to the pacing delay
MaxSelects == 6         \* direct select_optimal_card calls in one run
MaxScoredSelects == 4   \* the same where every call's jitter draws are followed
MaxElapsed == 100       \* clock time the tracker is followed for, in 1/100 s
ClockStart == 100000    \* time.time() when the model starts (an epoch far from 0)

----------------------------------------------------------------------------
(* Helpers *)

Min2(a, b) == IF a <= b THEN a ELSE b

Max2(a, b) == IF a >= b THEN a ELSE b

Ok(v) == [ok |-> TRUE, val |-> v, exc |-> "none"]

Raise(e, v) == [ok |-> FALSE, val |-> v, exc |-> e]

\* int(n / d) for d > 0: Python's int() truncates toward zero
Trunc(n, d) == IF n >= 0 THEN n \div d ELSE -((-n) \div d)

RECURSIVE SeqSum(_)
SeqSum(s) == IF Len(s) = 0 THEN 0 ELSE Head(s) + SeqSum(Tail(s))

SeqRange(s) == {s[i] : i \in 1..Len(s)}

\* a bounded history that, when full, drops its newest entry for the new one
DequeAppendEvictNewest(d, x, cap) ==
    IF Len(d) >= cap THEN Append(SubSeq(d, 1, Len(d) - 1), x) ELSE Append(d, x)

\* collections.deque(maxlen = cap).append(x): a full deque drops its oldest
\* (leftmost) entry
DequeAppend(d, x, cap) ==
    IF Len(d) >= cap THEN Append(Tail(d), x) ELSE Append(d, x)

----------------------------------------------------------------------------
(* Enumerations *)

Lanes == <<"LEFT", "RIGHT", "CENTER">>      \* class Lane, in definition order

LaneSet == {"LEFT", "RIGHT", "CENTER"}

ThreatLevels == {"NONE", "LOW", "MEDIUM", "HIGH", "CRITICAL"}

\* ThreatLevel.<name>.value
ThreatValue(t) ==
    CASE t = "NONE" -> 0
      [] t = "LOW" -> 1
      [] t = "MEDIUM" -> 2
      [] t = "HIGH" -> 3
      [] t = "CRITICAL" -> 4

\* ThreatLevel derives from Enum, not IntEnum, and defines no __lt__/__ge__:
\* Python has no ordering between two members.
ThreatOrdered == FALSE

\* a >= b on two ThreatLevel members
ThreatGE(a, b) ==
    IF ThreatOrdered THEN Ok(ThreatValue(a) >= ThreatValue(b))
    ELSE Raise("TypeError", FALSE)

\* max(ts) on a non-empty sequence of ThreatLevel members: one element is
\* returned without any comparison, two or more are compared with >
MaxThreatLevel(ts) ==
    IF Len(ts) = 1 THEN Ok(ts[1])
    ELSE IF ThreatOrdered
         THEN Ok(CHOOSE t \in SeqRange(ts) :
                    \A u \in SeqRange(ts) : ThreatValue(t) >= ThreatValue(u))
         ELSE Raise("TypeError", "NONE")

----------------------------------------------------------------------------
(* EnemyTracker *)

ScanInterval == 50      \* 0.5 s

PlayWindow == 1000      \* 10 s

DefaultPlayCost == 3

\* the five probe positions of _detect_enemy_units, in order
DetectionZones ==
    << [pos |-> <<150, 50>>,  lane |-> "LEFT"],
       [pos |-> <<490, 50>>,  lane |-> "RIGHT"],
       [pos |-> <<320, 80>>,  lane |-> "CENTER"],
       [pos |-> <<150, 285>>, lane |-> "LEFT"],
       [pos |-> <<490, 285>>, lane |-> "RIGHT"] >>

\* What a frame shows to the tracker: the probes at which some sampled pixel
\* matches the enemy palette (_detect_unit_at_position), the average brightness
\* of the classification neighbourhood (NoSamples when none of it lies inside
\* the frame), and per tower the pixels of the health strip inside the frame
\* and how many of them match the health colour.
NoSamples == -1

AssessThreatLevel(pos) ==
    IF pos[2] > 400 THEN "CRITICAL"
    ELSE IF pos[2] > 300 THEN "HIGH"
    ELSE IF pos[2] > 200 THEN "MEDIUM"
    ELSE "LOW"

\* avg_brightness = sum(...) / (len(area_pixels) * 3) divides by zero when no
\* sample lies inside the frame
ClassifyUnitType(brightness) ==
    IF brightness = NoSamples THEN Raise("ZeroDivisionError", "tank")
    ELSE Ok(IF brightness > 200 THEN "spell"
            ELSE IF brightness > 150 THEN "swarm"
            ELSE IF brightness > 100 THEN "dps"
            ELSE "tank")

RECURSIVE DetectFrom(_, _, _, _)
DetectFrom(i, frame, t, current_units) ==
    IF i > Len(DetectionZones) THEN Ok(current_units)
    ELSE IF i \notin frame.hits THEN DetectFrom(i + 1, frame, t, current_units)
    ELSE LET c == ClassifyUnitType(frame.brightness)
             unit == [position |-> DetectionZones[i].pos,
                      unit_type |-> c.val,
                      timestamp |-> t,
                      threat_level |-> AssessThreatLevel(DetectionZones[i].pos),
                      lane |-> DetectionZones[i].lane]
         IN  IF c.ok THEN DetectFrom(i + 1, frame, t, Append(current_units, unit))
             ELSE Raise(c.exc, current_units)

\* the list that replaces game_state.enemy_units, or the exception
DetectEnemyUnits(frame, t) == DetectFrom(1, frame, t, <<>>)

\* a play is a dict; NoKey marks a missing 'time' or 'cost'
NoKey == -1

PlayTime(p, default) == IF p.time = NoKey THEN default ELSE p.time

PlayCost(p, default) == IF p.cost = NoKey THEN default ELSE p.cost

RecentPlayTest(p, t) == t - PlayTime(p, 0) < PlayWindow

RECURSIVE MinPlayTime(_, _)
MinPlayTime(plays, t) ==
    IF Len(plays) = 1 THEN PlayTime(plays[1], t)
    ELSE Min2(PlayTime(plays[1], t), MinPlayTime(Tail(plays), t))

\* the estimate without the clamp to [0, 10]
EstimateEnemyElixirUnclamped(plays, t) ==
    LET recent_plays == SelectSeq(plays, LAMBDA p : RecentPlayTest(p, t))
        estimated_spent ==
            SeqSum([k \in 1..Len(recent_plays) |-> PlayCost(recent_plays[k], DefaultPlayCost)])
        time_passed == IF Len(recent_plays) > 0
                       THEN Max2(100, t - MinPlayTime(recent_plays, t))
                       ELSE 1000
    IN  Trunc(time_passed * 14 - estimated_spent * 1000, 1000)

\* an estimate that counts no generated elixir when no play is recent
EstimateEnemyElixirIdleZero(plays, t) ==
    LET recent_plays == SelectSeq(plays, LAMBDA p : RecentPlayTest(p, t))
        estimated_spent ==
            SeqSum([k \in 1..Len(recent_plays) |-> PlayCost(recent_plays[k], DefaultPlayCost)])
        time_passed == IF Len(recent_plays) > 0
                       THEN Max2(100, t - MinPlayTime(recent_plays, t))
                       ELSE 0
        diff1000 == time_passed * 14 - estimated_spent * 1000
    IN  Max2(0, Min2(10, Trunc(diff1000, 1000)))

\* max(0, min(10, int(time_passed * 1.4 - estimated_spent))), in exact
\* arithmetic on thousandths of an elixir
EstimateEnemyElixir(plays, t) ==
    LET recent_plays == SelectSeq(plays, LAMBDA p : RecentPlayTest(p, t))
        estimated_spent ==
            SeqSum([k \in 1..Len(recent_plays) |-> PlayCost(recent_plays[k], DefaultPlayCost)])
        time_passed == IF Len(recent_plays) > 0
                       THEN Max2(100, t - MinPlayTime(recent_plays, t))
                       ELSE 1000
        diff1000 == time_passed * 14 - estimated_spent * 1000
    IN  Max2(0, Min2(10, Trunc(diff1000, 1000)))

\* an estimate that reads a strip without pixels as an empty health bar
EstimateTowerHealthZeroDefault(strip) ==
    IF strip.total > 0 THEN <<strip.green, strip.total>> ELSE <<0, 1>>

\* total_green / total_pixels if total_pixels > 0 else 1.0, as <<num, den>>
EstimateTowerHealth(strip) ==
    IF strip.total > 0 THEN <<strip.green, strip.total>> ELSE <<1, 1>>

TowerKeys == {"king", "left", "right"}

AnalyzeTowerHealth(frame, side) ==
    [k \in TowerKeys |-> EstimateTowerHealth(frame.strips[side][k])]

RECURSIVE UpdateThreatFrom(_, _, _)
UpdateThreatFrom(i, units, pressure) ==
    IF i > Len(Lanes) THEN Ok(pressure)
    ELSE LET lane == Lanes[i]
             lane_units == SelectSeq(units, LAMBDA u : u.lane = lane)
             m == MaxThreatLevel([k \in 1..Len(lane_units) |-> lane_units[k].threat_level])
         IN  IF Len(lane_units) = 0
             THEN UpdateThreatFrom(i + 1, units, [pressure EXCEPT ![lane] = "NONE"])
             ELSE IF m.ok
                  THEN UpdateThreatFrom(i + 1, units, [pressure EXCEPT ![lane] = m.val])
                  ELSE Raise(m.exc, pressure)

\* the lanes are visited in order; a raise leaves the lanes already visited
\* rewritten and the others as they were
UpdateThreatLevels(units, pressure) == UpdateThreatFrom(1, units, pressure)

----------------------------------------------------------------------------
(* TacticalAI *)

\* a < b on two tower healths <<num, den>> with den > 0
HealthLess(a, b) == a[1] * b[2] < b[1] * a[2]

AnalyzePressure(pressure) ==
    LET total_pressure == SeqSum([i \in 1..Len(Lanes) |-> ThreatValue(pressure[Lanes[i]])])
        \* max(keys, key = value): the first lane, in dict order, of maximal value
        first_max == CHOOSE i \in 1..Len(Lanes) :
                        /\ \A j \in 1..Len(Lanes) :
                              ThreatValue(pressure[Lanes[i]]) >= ThreatValue(pressure[Lanes[j]])
                        /\ \A j \in 1..(i - 1) :
                              ThreatValue(pressure[Lanes[j]]) < ThreatValue(pressure[Lanes[i]])
    IN  [total_pressure |-> total_pressure,
         max_pressure_lane |-> Lanes[first_max],
         needs_immediate_defense |-> total_pressure >= ThreatValue("HIGH")]

\* the play style with the elixir tests made before the defense test
DeterminePlayStyleElixirFirst(pressure, ours, theirs) ==
    LET elixir_diff == ours - theirs
    IN  IF elixir_diff >= 3 THEN "AGGRESSIVE"
        ELSE IF elixir_diff <= -2 THEN "CYCLE"
        ELSE IF AnalyzePressure(pressure).needs_immediate_defense THEN "DEFENSIVE"
        ELSE "COUNTER_PUSH"

DeterminePlayStyle(pressure, ours, theirs) ==
    LET elixir_diff == ours - theirs
    IN  IF AnalyzePressure(pressure).needs_immediate_defense THEN "DEFENSIVE"
        ELSE IF elixir_diff >= 3 THEN "AGGRESSIVE"
        ELSE IF elixir_diff <= -2 THEN "CYCLE"
        ELSE "COUNTER_PUSH"

\* coin is the outcome of random.random() < 0.5 on a health tie
SelectPriorityLane(pressure, tower_health, coin) ==
    LET l == ThreatGE(pressure["LEFT"], "HIGH")
        r == ThreatGE(pressure["RIGHT"], "HIGH")
    IN  IF ~l.ok THEN Raise(l.exc, "LEFT")
        ELSE IF l.val THEN Ok("LEFT")
        ELSE IF ~r.ok THEN Raise(r.exc, "LEFT")
        ELSE IF r.val THEN Ok("RIGHT")
        ELSE IF HealthLess(tower_health["left"], tower_health["right"]) THEN Ok("LEFT")
        ELSE IF HealthLess(tower_health["right"], tower_health["left"]) THEN Ok("RIGHT")
        ELSE Ok(IF coin THEN "LEFT" ELSE "RIGHT")

\* jit is the outcome of random.randint: within -30..30 it is a legal draw of
\* both randint(-40, 40) and randint(-30, 30)
CalculateCounterPosition(threat, jit) ==
    LET x == threat.position[1]
        y == threat.position[2]
    IN  IF threat.unit_type = "tank" THEN <<x, Min2(y + 80, 450)>>
        ELSE IF threat.unit_type = "swarm" THEN <<x + jit, y + 60>>
        ELSE <<x + jit, y + 50>>

\* random.choice(counters.get(unit_type, ["generic"])); pick indexes the draw
RecommendCounterCard(threat, pick) ==
    LET counters ==
            CASE threat.unit_type = "tank" -> <<"building", "swarm", "dps">>
              [] threat.unit_type = "swarm" -> <<"spell", "splash">>
              [] threat.unit_type = "dps" -> <<"tank", "building">>
              [] threat.unit_type = "spell" -> <<"none">>
              [] threat.unit_type = "building" -> <<"spell", "tank">>
              [] OTHER -> <<"generic">>
    IN  counters[((pick - 1) % Len(counters)) + 1]

\* sorted(needs, key = urgency, reverse = True): stable, so needs of equal
\* urgency keep their order
RECURSIVE SortByUrgencyFrom(_, _)
SortByUrgencyFrom(u, needs) ==
    IF u < 0 THEN <<>>
    ELSE SelectSeq(needs, LAMBDA n : n.urgency = u) \o SortByUrgencyFrom(u - 1, needs)

SortByUrgency(needs) == SortByUrgencyFrom(4, needs)

RECURSIVE AssessFrom(_, _, _, _)
AssessFrom(i, units, rnd, needs) ==
    IF i > Len(units) THEN Ok(SortByUrgency(needs))
    ELSE LET unit == units[i]
             c == ThreatGE(unit.threat_level, "HIGH")
             need == [threat |-> unit,
                      counter_position |-> CalculateCounterPosition(unit, rnd.jit),
                      recommended_counter |-> RecommendCounterCard(unit, rnd.pick),
                      urgency |-> ThreatValue(unit.threat_level)]
         IN  IF ~c.ok THEN Raise(c.exc, <<>>)
             ELSE IF c.val THEN AssessFrom(i + 1, units, rnd, Append(needs, need))
             ELSE AssessFrom(i + 1, units, rnd, needs)

AssessDefensiveNeeds(units, rnd) == AssessFrom(1, units, rnd, <<>>)

\* last_push_time is set to 0.0 at construction and never written
LastPushTime == 0

EvaluatePushOpportunity(pressure, tower_health, ours, theirs, t, coin) ==
    LET time_since_last_push == t - LastPushTime
        elixir_advantage == ours - theirs
        no_immediate_threats ==
            \A lane \in LaneSet : ThreatValue(pressure[lane]) < ThreatValue("HIGH")
        opportunity_score == (IF elixir_advantage >= 2 THEN 3 ELSE 0)
                             + (IF no_immediate_threats THEN 2 ELSE 0)
                             + (IF time_since_last_push > 1500 THEN 1 ELSE 0)
        lane == SelectPriorityLane(pressure, tower_health, coin)
        push == [should_push |-> opportunity_score >= 4,
                 opportunity_score |-> opportunity_score,
                 recommended_lane |-> lane.val,
                 push_type |-> IF elixir_advantage >= 4 THEN "beatdown" ELSE "pressure"]
    IN  IF lane.ok THEN Ok(push) ELSE Raise(lane.exc, push)

NoAnalysis ==
    [present |-> FALSE, elixir_advantage |-> 0, pressure_situation |-> AnalyzePressure([l \in LaneSet |-> "NONE"]),
     recommended_play_style |-> "DEFENSIVE", priority_lane |-> "LEFT",
     defensive_needs |-> <<>>, should_push |-> FALSE, opportunity_score |-> 0,
     recommended_lane |-> "LEFT", push_type |-> "pressure"]

\* The dict literal of analyze_situation is evaluated entry by entry, so the
\* first entry that raises ends the call. tower_advantage, a float read by no
\* operation, is left out of the record. rnd = [coin, coin2, jit, pick].
AnalyzeSituation(units, pressure, tower_health, ours, theirs, t, rnd) ==
    LET lane == SelectPriorityLane(pressure, tower_health, rnd.coin)
        needs == AssessDefensiveNeeds(units, rnd)
        push == EvaluatePushOpportunity(pressure, tower_health, ours, theirs, t, rnd.coin2)
    IN  IF ~lane.ok THEN Raise(lane.exc, NoAnalysis)
        ELSE IF ~needs.ok THEN Raise(needs.exc, NoAnalysis)
        ELSE IF ~push.ok THEN Raise(push.exc, NoAnalysis)
        ELSE Ok([present |-> TRUE,
                 elixir_advantage |-> ours - theirs,
                 pressure_situation |-> AnalyzePressure(pressure),
                 recommended_play_style |-> DeterminePlayStyle(pressure, ours, theirs),
                 priority_lane |-> lane.val,
                 defensive_needs |-> needs.val,
                 should_push |-> push.val.should_push,
                 opportunity_score |-> push.val.opportunity_score,
                 recommended_lane |-> push.val.recommended_lane,
                 push_type |-> push.val.push_type])

----------------------------------------------------------------------------
(* AdvancedPlayAreaGenerator *)

\* class CardType
CardTypes == {"tank", "dps", "swarm", "spell", "building", "win_condition",
              "support", "anti_air"}

\* get_optimal_play_position and the routines it dispatches to. with_ai says
\* whether set_tactical_ai has been called, units is the tracked unit list;
\* rnd = [dx, dy, pick] are the draws of random.randint and random.choice.
GetOptimalPlayPosition(card_type, target_lane, play_intent, with_ai, units, rnd) ==
    LET ByLane(left, right, center) ==
            IF target_lane = "LEFT" THEN left
            ELSE IF target_lane = "RIGHT" THEN right ELSE center
        Jitter(base) == <<base[1] + rnd.dx, base[2] + rnd.dy>>
        _get_kiting_position ==
            ByLane(<< <<100, 400>>, <<160, 420>>, <<120, 380>> >>,
                   << <<540, 400>>, <<480, 420>>, <<520, 380>> >>,
                   << <<320, 380>>, <<280, 400>>, <<360, 400>> >>)[rnd.pick]
        _get_defensive_position ==
            IF card_type = "building"
            THEN ByLane(<<220, 380>>, <<420, 380>>, <<320, 390>>)
            ELSE IF card_type \in {"tank", "dps"}
            THEN Jitter(ByLane(<<200, 350>>, <<440, 350>>, <<320, 360>>))
            ELSE _get_kiting_position
        _get_support_position ==
            Jitter(ByLane(<<180, 320>>, <<460, 320>>, <<320, 330>>))
        _get_push_position ==
            IF card_type = "tank"
            THEN Jitter(ByLane(<<150, 285>>, <<490, 285>>, <<320, 285>>))
            ELSE IF card_type = "win_condition"
            THEN ByLane(<<80, 285>>, <<560, 285>>, <<320, 300>>)
            ELSE _get_support_position
        _get_standard_position ==
            Jitter(ByLane(<<150, 350>>, <<490, 350>>, <<320, 340>>))
        \* t.lane == lane and t.threat_level >= ThreatLevel.MEDIUM, unit by unit
        in_lane == SelectSeq(units, LAMBDA t : t.lane = target_lane)
        lane_threats ==
            SelectSeq(in_lane, LAMBDA t : ThreatGE(t.threat_level, "MEDIUM").val)
        \* max(lane_threats, key = value): the first of maximal value
        first_max ==
            CHOOSE i \in 1..Len(lane_threats) :
                /\ \A j \in 1..Len(lane_threats) :
                      ThreatValue(lane_threats[i].threat_level)
                          >= ThreatValue(lane_threats[j].threat_level)
                /\ \A j \in 1..(i - 1) :
                      ThreatValue(lane_threats[j].threat_level)
                          < ThreatValue(lane_threats[i].threat_level)
        _get_counter_position ==
            IF with_ai /\ in_lane # <<>> /\ ~ThreatGE(in_lane[1].threat_level, "MEDIUM").ok
            THEN Raise(ThreatGE(in_lane[1].threat_level, "MEDIUM").exc, <<0, 0>>)
            ELSE IF with_ai /\ lane_threats # <<>>
            THEN Ok(CalculateCounterPosition(lane_threats[first_max], rnd.dx))
            ELSE Ok(_get_defensive_position)
    IN  IF play_intent = "defensive" /\ with_ai THEN Ok(_get_defensive_position)
        ELSE IF play_intent = "counter" THEN _get_counter_position
        ELSE IF play_intent = "push" THEN Ok(_get_push_position)
        ELSE Ok(_get_standard_position)

----------------------------------------------------------------------------
(* MasterBattleEngine: construction *)

\* the methods class MasterBattleEngine defines
DefinedMethods ==
    {"execute_god_tier_battle", "_initialize_battle_state", "_make_strategic_decision",
     "_execute_emergency_defense", "_execute_perfect_counter", "_execute_calculated_push",
     "_execute_smart_cycle", "_execute_spell_prediction", "_execute_micro_play",
     "_execute_pig_push", "_execute_kiting", "_execute_split_push",
     "_calculate_human_like_delay", "_apply_psychological_pressure", "_learn_from_play",
     "_update_opponent_profile", "_detect_spell_pattern", "_predict_incoming_spell",
     "_detect_advanced_opportunity", "_detect_opponent_cycle_vulnerability",
     "_make_tempo_based_decision", "_find_best_counter_card",
     "_calculate_precise_counter_position", "_execute_follow_up_defense",
     "_calculate_enemy_commitment", "_select_optimal_counter_lane",
     "_select_counter_combo", "_get_lane_position", "_execute_counter_support"}

\* the module-level functions fight.py defines or imports
DefinedFunctions ==
    {"do_fight_state", "wait_for_battle_start", "check_for_in_battle_with_delay",
     "check_which_cards_are_available", "save_image"}

\* self.<name> evaluated on an engine
GetMethod(name) ==
    IF name \in DefinedMethods THEN Ok(name) ELSE Raise("AttributeError", name)

\* the bound methods __init__ reads to fill micro_techniques, macro_strategies
\* and psychological_warfare, in order
DispatchTableRefs ==
    <<"_execute_pig_push", "_predict_and_dodge_spell", "_execute_kiting",
      "_execute_split_push", "_cycle_spells_optimally", "_time_elixir_pump",
      "_execute_beatdown", "_execute_siege", "_execute_control", "_execute_cycle",
      "_execute_bridge_spam", "_time_bm_perfectly", "_fake_card_rotation",
      "_manipulate_game_tempo", "_apply_psychological_pressure">>

\* MasterBattleEngine(): raises at the first table entry naming no method
EngineInit ==
    IF \A i \in 1..Len(DispatchTableRefs) : GetMethod(DispatchTableRefs[i]).ok
    THEN Ok("engine")
    ELSE Raise("AttributeError", "none")

SuccessCap == 20

FailureCap == 10

EnemyPlaysCap == 8

RecentCardsCap == 4

EmptyTally == [a \in {} |-> [success |-> 0, total |-> 0]]

----------------------------------------------------------------------------
(* MasterBattleEngine: the decide step *)

NoUnit == [position |-> <<0, 0>>, unit_type |-> "tank", timestamp |-> 0,
           threat_level |-> "NONE", lane |-> "LEFT"]

NoNeed == [threat |-> NoUnit, counter_position |-> <<0, 0>>,
           recommended_counter |-> "none", urgency |-> 0]

\* a Decision dict; keys a Decision does not carry hold "none" / NoNeed;
\* confidence in hundredths
MkDecision(action, priority, confidence, reasoning) ==
    [present |-> TRUE, action |-> action, priority |-> priority,
     confidence |-> confidence, reasoning |-> reasoning, type |-> "none",
     lane |-> "none", target |-> NoNeed, predicted_spell |-> "none"]

NoDecision == [MkDecision("none", 0, 0, "none") EXCEPT !.present = FALSE]

DetectSpellPattern(plays) ==
    LET spell_plays == SelectSeq(plays, LAMBDA p : p.type = "spell")
        n == Len(spell_plays)
        time_diff == PlayTime(spell_plays[n], 0) - PlayTime(spell_plays[n - 1], 0)
    IN  IF Len(plays) < 3 THEN FALSE
        ELSE IF n >= 2 THEN 800 <= time_diff /\ time_diff <= 1200
        ELSE FALSE

\* the under-cycling test with the bound 12 excluded
DetectOpponentCycleVulnerabilityBelow(plays) ==
    LET recent_plays == SubSeq(plays, Max2(1, Len(plays) - 3), Len(plays))
        costs == [k \in 1..Len(recent_plays) |-> PlayCost(recent_plays[k], 4)]
    IN  IF Len(recent_plays) < 4 THEN FALSE ELSE SeqSum(costs) < 12

DetectOpponentCycleVulnerability(plays) ==
    LET recent_plays == SubSeq(plays, Max2(1, Len(plays) - 3), Len(plays))
        costs == [k \in 1..Len(recent_plays) |-> PlayCost(recent_plays[k], 4)]
    IN  IF Len(recent_plays) < 4 THEN FALSE ELSE SeqSum(costs) <= 12

DetectAdvancedOpportunity(a, battle_time, plays) ==
    IF battle_time > 18000 /\ a.elixir_advantage >= 3
    THEN MkDecision("overtime_push", 5, 95, "overtime_advantage")
    ELSE IF DetectOpponentCycleVulnerability(plays)
    THEN MkDecision("cycle_break", 4, 85, "opponent_cycle_vulnerable")
    ELSE NoDecision

MakeTempoBasedDecision(battle_time) ==
    IF battle_time < 3000
    THEN MkDecision("conservative_opening", 2, 70, "early_game_caution")
    ELSE IF 3000 <= battle_time /\ battle_time < 12000
    THEN MkDecision("tempo_control", 3, 80, "mid_game_control")
    ELSE MkDecision("endgame_tactics", 4, 90, "late_game_aggression")

\* the decide step with the push test moved in front of the defense test
MakeStrategicDecisionPushFirst(a, battle_time, ours, theirs, plays, spell) ==
    LET urgent_threats == SelectSeq(a.defensive_needs, LAMBDA need : need.urgency >= 3)
        advanced_opportunity == DetectAdvancedOpportunity(a, battle_time, plays)
    IN  IF a.should_push /\ ours >= 7 /\ theirs <= 3
        THEN [MkDecision("push", 4, 90, "massive_elixir_advantage")
                EXCEPT !.lane = a.priority_lane, !.type = "punishment_push"]
        ELSE IF Len(a.defensive_needs) > 0 /\ Len(urgent_threats) > 0
        THEN [MkDecision("immediate_defense", 5, 95, "critical_threat_detected")
                EXCEPT !.target = urgent_threats[1]]
        ELSE IF DetectSpellPattern(plays)
        THEN [MkDecision("spell_prediction", 3, 80, "spell_pattern_detected")
                EXCEPT !.predicted_spell = spell]
        ELSE IF advanced_opportunity.present THEN advanced_opportunity
        ELSE MakeTempoBasedDecision(battle_time)

\* spell is the outcome of random.choice in _predict_incoming_spell
MakeStrategicDecision(a, battle_time, ours, theirs, plays, spell) ==
    LET urgent_threats == SelectSeq(a.defensive_needs, LAMBDA need : need.urgency >= 3)
        advanced_opportunity == DetectAdvancedOpportunity(a, battle_time, plays)
    IN  IF Len(a.defensive_needs) > 0 /\ Len(urgent_threats) > 0
        THEN [MkDecision("immediate_defense", 5, 95, "critical_threat_detected")
                EXCEPT !.target = urgent_threats[1]]
        ELSE IF a.should_push /\ ours >= 7 /\ theirs <= 3
        THEN [MkDecision("push", 4, 90, "massive_elixir_advantage")
                EXCEPT !.lane = a.priority_lane, !.type = "punishment_push"]
        ELSE IF DetectSpellPattern(plays)
        THEN [MkDecision("spell_prediction", 3, 80, "spell_pattern_detected")
                EXCEPT !.predicted_spell = spell]
        ELSE IF advanced_opportunity.present THEN advanced_opportunity
        ELSE MakeTempoBasedDecision(battle_time)

----------------------------------------------------------------------------
(* MasterBattleEngine: execution routines *)

\* the hand anchors, indexed by slot 0..3
HandCoords == << <<142, 561>>, <<210, 563>>, <<272, 561>>, <<341, 563>> >>

NoSlot == -1

HandTap(slot) == [kind |-> "hand", slot |-> slot, pos |-> HandCoords[slot + 1]]

PlaceTap(pos) == [kind |-> "place", slot |-> NoSlot, pos |-> pos]

\* One call to a collaborator made by a routine: the slot query or a tap, and
\* the time slept since the previous call.
QueryCall(pause) == [call |-> "query", tap |-> PlaceTap(<<0, 0>>), pause |-> pause]

TapCall(tap, pause) == [call |-> "tap", tap |-> tap, pause |-> pause]

\* a choice of the first preferred counter whether or not it is available
FindBestCounterCardUnchecked(available_cards, threat) ==
    LET preferred_counters ==
            CASE threat.unit_type = "tank" -> <<2, 1, 3>>
              [] threat.unit_type = "swarm" -> <<3, 0>>
              [] threat.unit_type = "dps" -> <<0, 2>>
              [] threat.unit_type = "spell" -> <<1>>
              [] OTHER -> available_cards
    IN  preferred_counters[1]

FindBestCounterCard(available_cards, threat) ==
    LET preferred_counters ==
            CASE threat.unit_type = "tank" -> <<2, 1, 3>>
              [] threat.unit_type = "swarm" -> <<3, 0>>
              [] threat.unit_type = "dps" -> <<0, 2>>
              [] threat.unit_type = "spell" -> <<1>>
              [] OTHER -> available_cards
        hits == SelectSeq(preferred_counters, LAMBDA c : c \in SeqRange(available_cards))
    IN  IF Len(hits) > 0 THEN hits[1] ELSE available_cards[1]

\* For a tank the position is 40 units from the threat along the vector to
\* base_pos. Every need of the model carries the base position
\* _calculate_counter_position gives, which for a tank is straight below (or,
\* capped at 450, level with or above) the threat, so the vector is vertical
\* or null: atan2 is pi/2, 0 or -pi/2 and int() drops the 1e-15 residue of cos.
CalculatePreciseCounterPosition(threat, base_pos, jx, jy) ==
    LET tx == threat.position[1]
        ty == threat.position[2]
    IN  IF threat.unit_type = "tank"
        THEN IF base_pos[2] > ty THEN <<tx, ty + 40>>
             ELSE IF base_pos[2] = ty THEN <<tx + 40, ty>>
             ELSE <<tx, ty - 40>>
        ELSE IF threat.unit_type = "swarm" THEN <<base_pos[1] + jx, base_pos[2] + jy>>
        ELSE base_pos

\* _execute_follow_up_defense: only for a CRITICAL threat, one more query and,
\* when it answers a slot, one more pair of taps
FollowUpDefenseCalls(threat, avail2) ==
    IF threat.threat_level = "CRITICAL"
    THEN <<QueryCall(100)>>
         \o (IF Len(avail2) > 0
             THEN <<TapCall(HandTap(avail2[1]), 0),
                    TapCall(PlaceTap(<<threat.position[1] + 30, threat.position[2] + 40>>), 10)>>
             ELSE <<>>)
    ELSE <<>>

\* _execute_emergency_defense: the collaborator calls it makes, in order, and
\* what it returns when none of them raises
EmergencyDefense(d, avail1, avail2, jx, jy) ==
    LET threat == d.target.threat
        best_counter_index == FindBestCounterCard(avail1, threat)
        precise == CalculatePreciseCounterPosition(threat, d.target.counter_position, jx, jy)
    IN  IF Len(avail1) = 0
        THEN [calls |-> <<QueryCall(0)>>, ret |-> FALSE]
        ELSE [calls |-> <<QueryCall(0),
                          TapCall(HandTap(best_counter_index), 0),
                          TapCall(PlaceTap(precise), 5)>>
                        \o FollowUpDefenseCalls(threat, avail2),
              ret |-> TRUE]

\* the if/elif chain of the dispatch step
RoutineOf(action) ==
    CASE action = "immediate_defense" -> "_execute_emergency_defense"
      [] action = "counter_attack" -> "_execute_perfect_counter"
      [] action = "push" -> "_execute_calculated_push"
      [] action = "cycle" -> "_execute_smart_cycle"
      [] action = "spell_prediction" -> "_execute_spell_prediction"
      [] action = "micro_technique" -> "_execute_micro_play"
      [] OTHER -> "_execute_standard_play"

\* _execute_calculated_push hands over to a routine chosen by the push type
PushRoutineOf(push_type) ==
    CASE push_type = "beatdown" -> "_execute_beatdown_push"
      [] push_type = "punishment_push" -> "_execute_punishment_push"
      [] push_type = "split_push" -> "_execute_split_push_advanced"
      [] OTHER -> "_execute_pressure_push"

\* The first method the dispatch of d looks up, before any call to a
\* collaborator, that the class may not define: the routine itself, the push
\* routine behind _execute_calculated_push, or the helper the first statement
\* of _execute_spell_prediction calls.
FirstLookup(d) ==
    LET routine == RoutineOf(d.action)
    IN  IF ~GetMethod(routine).ok THEN routine
        ELSE IF routine = "_execute_calculated_push" THEN PushRoutineOf(d.type)
        ELSE IF routine = "_execute_spell_prediction" THEN "_calculate_spell_dodge_positions"
        ELSE routine

\* calls[1..n] as taps
RECURSIVE TapsOf(_)
TapsOf(calls) ==
    IF Len(calls) = 0 THEN <<>>
    ELSE (IF Head(calls).call = "tap" THEN <<Head(calls).tap>> ELSE <<>>) \o TapsOf(Tail(calls))

PauseOf(calls) == SeqSum([k \in 1..Len(calls) |-> calls[k].pause])

\* A routine making `calls`, of which call number f raises (f = 0: none does):
\* the taps sent, the time slept, and the outcome.
RunCalls(calls, ret, f) ==
    IF f = 0
    THEN [taps |-> TapsOf(calls), slept |-> PauseOf(calls), out |-> Ok(ret)]
    ELSE [taps |-> TapsOf(SubSeq(calls, 1, f - 1)),
          slept |-> PauseOf(SubSeq(calls, 1, f)),
          out |-> Raise("EnvError", FALSE)]

----------------------------------------------------------------------------
(* MasterBattleEngine: outcome memory, emote, pacing *)

\* The record of _learn_from_play. Its timestamp is time.time() at the call;
\* the model keeps the order of the records only, as the ordinal of the record
\* among all records made. Its context is a reference to the tracker's one
\* GameState object, not a copy, so it holds no value of its own.
PlayRecord(d, ok, ordinal) == [decision |-> d, order |-> ordinal, success |-> ok]

\* rec["context"]: the record holds the tracker's GameState object itself, so
\* reading it gives what the object holds at the time of the reading, whatever
\* the record and whenever it was made
RecordContext(rec, game_state) == game_state

LogAppend(log, rec, cap) == DequeAppend(log, rec, cap)

\* a tally that counts an attempt only when it succeeded
UpdateOpponentProfileSuccessOnly(tally, action, ok) ==
    LET old == IF action \in DOMAIN tally THEN tally[action]
               ELSE [success |-> 0, total |-> 0]
        n == IF ok THEN 1 ELSE 0
    IN  [a \in (DOMAIN tally) \cup {action} |->
            IF a = action
            THEN [success |-> old.success + n, total |-> old.total + n]
            ELSE tally[a]]

UpdateOpponentProfile(tally, action, ok) ==
    LET old == IF action \in DOMAIN tally THEN tally[action]
               ELSE [success |-> 0, total |-> 0]
    IN  [a \in (DOMAIN tally) \cup {action} |->
            IF a = action
            THEN [success |-> old.success + (IF ok THEN 1 ELSE 0), total |-> old.total + 1]
            ELSE tally[a]]

\* _initialize_battle_state clears the two logs and nothing else of
\* battle_memory
InitializeBattleState(mem) ==
    [successful_plays |-> <<>>, failed_plays |-> <<>>,
     opponent_weaknesses |-> mem.opponent_weaknesses]

\* variation is the draw of random.uniform(0.05, 0.15)
\* a delay whose base is not reduced by the number of needs
CalculateHumanLikeDelayNoStress(a, variation) ==
    LET n == Len(a.defensive_needs)
        max_urgency == CHOOSE u \in {a.defensive_needs[k].urgency : k \in 1..n} :
                          \A k \in 1..n : a.defensive_needs[k].urgency <= u
        base_delay == IF n = 0 THEN 30
                      ELSE IF max_urgency >= 4 THEN 10
                      ELSE IF max_urgency >= 3 THEN 20
                      ELSE 30
    IN  Max2(5, base_delay + variation)

CalculateHumanLikeDelay(a, variation) ==
    LET n == Len(a.defensive_needs)
        max_urgency == CHOOSE u \in {a.defensive_needs[k].urgency : k \in 1..n} :
                          \A k \in 1..n : a.defensive_needs[k].urgency <= u
        base_delay == IF n = 0 THEN 30
                      ELSE IF max_urgency >= 4 THEN 10
                      ELSE IF max_urgency >= 3 THEN 20
                      ELSE 30
        \* stress_factor = min(1.0, n * 0.2); base_delay * (1 - stress_factor)
        stressed == (base_delay * (5 - Min2(5, n))) \div 5
    IN  Max2(5, stressed + variation)

EmoteButton == <<67, 521>>

EmotePositions == << <<124, 419>>, <<182, 420>>, <<255, 411>>, <<312, 423>> >>

\* _apply_psychological_pressure when random.random() < 0.15
EmoteCalls(k) == <<TapCall(PlaceTap(EmoteButton), 0), TapCall(PlaceTap(EmotePositions[k]), 20)>>

----------------------------------------------------------------------------
(* EliteCardSelector *)

EstimateCardType(card_index) ==
    CASE card_index = 0 -> "tank"
      [] card_index = 1 -> "dps"
      [] card_index = 2 -> "swarm"
      [] card_index = 3 -> "spell"
      [] OTHER -> "support"

SituationPriorities(situation) ==
    CASE situation = "defense" -> {"building", "swarm", "spell"}
      [] situation = "push" -> {"win_condition", "tank", "support"}
      [] situation = "counter" -> {"dps", "spell", "swarm"}
      [] situation = "cycle" -> {"support", "swarm"}
      [] OTHER -> {}

CardSynergies(card_index) ==
    CASE card_index = 0 -> {1, 2}
      [] card_index = 1 -> {0, 3}
      [] card_index = 2 -> {0, 3}
      [] card_index = 3 -> {1, 2}
      [] OTHER -> {}

\* list(recent).index(x), counted from 0
IndexIn(recent, x) == (CHOOSE k \in 1..Len(recent) :
                          recent[k] = x /\ \A j \in 1..(k - 1) : recent[j] # x) - 1

CalculateSynergyBonus(card_index, recent) ==
    LET recent_plays == SubSeq(recent, Max2(1, Len(recent) - 1), Len(recent))
    IN  15 * Cardinality(CardSynergies(card_index) \cap SeqRange(recent_plays))

\* the score before the jitter of random.uniform(-5, 5)
CalculateCardScore(card_index, card_type, situation, with_ai, recent) ==
    50 + (IF card_type \in SituationPriorities(situation) THEN 30 ELSE 0)
       - (IF card_index \in SeqRange(recent)
          THEN (4 - IndexIn(recent, card_index)) * 10 ELSE 0)
       + (IF with_ai THEN CalculateSynergyBonus(card_index, recent) ELSE 0)

DetermineSituationFromAnalysis(a) ==
    IF Len(a.defensive_needs) > 0 THEN "defense"
    ELSE IF a.should_push THEN "push"
    ELSE IF a.elixir_advantage <= -2 THEN "cycle"
    ELSE "counter"

DeterminePlayIntent(situation) ==
    CASE situation = "defense" -> "defensive"
      [] situation = "push" -> "push"
      [] situation = "counter" -> "counter"
      [] situation = "cycle" -> "cycle"
      [] OTHER -> "offensive"

NoSelection == [present |-> FALSE, index |-> NoSlot, card_type |-> "none",
                play_intent |-> "none", situation |-> "none", available |-> <<>>,
                with_ai |-> FALSE, jitter |-> <<>>]

\* a selector that consults the tactical context before it looks at the slots
SelectOptimalCardAnalyzeFirst(available_indices, situation_arg, with_ai, ai, recent, jitter) ==
    LET situation == IF with_ai THEN DetermineSituationFromAnalysis(ai.val)
                     ELSE situation_arg
        n == Len(available_indices)
        score(k) == CalculateCardScore(available_indices[k],
                                       EstimateCardType(available_indices[k]),
                                       situation, with_ai, recent) + jitter[k]
        \* max(scored_cards, key = score): the first of maximal score
        best == CHOOSE k \in 1..n :
                    /\ \A j \in 1..n : score(k) >= score(j)
                    /\ \A j \in 1..(k - 1) : score(j) < score(k)
        selected_index == available_indices[best]
        sel == [present |-> TRUE, index |-> selected_index,
                card_type |-> EstimateCardType(selected_index),
                play_intent |-> DeterminePlayIntent(situation),
                situation |-> situation, available |-> available_indices,
                with_ai |-> with_ai, jitter |-> jitter]
    IN  IF with_ai /\ ~ai.ok THEN Raise(ai.exc, [sel |-> NoSelection, recent |-> recent])
        ELSE IF n = 0 THEN Raise("ValueError", [sel |-> NoSelection, recent |-> recent])
        ELSE Ok([sel |-> sel,
                 recent |-> IF selected_index \in SeqRange(recent) THEN recent
                            ELSE DequeAppend(recent, selected_index, RecentCardsCap)])

\* select_optimal_card. ai is the result of tactical_ai.analyze_situation()
\* when a tactical context is passed (with_ai), jitter[k] the draw of
\* random.uniform for available_indices[k]. val is [sel, recent]: what is
\* returned and the recently-used window afterwards.
SelectOptimalCard(available_indices, situation_arg, with_ai, ai, recent, jitter) ==
    LET situation == IF with_ai THEN DetermineSituationFromAnalysis(ai.val)
                     ELSE situation_arg
        n == Len(available_indices)
        score(k) == CalculateCardScore(available_indices[k],
                                       EstimateCardType(available_indices[k]),
                                       situation, with_ai, recent) + jitter[k]
        \* max(scored_cards, key = score): the first of maximal score
        best == CHOOSE k \in 1..n :
                    /\ \A j \in 1..n : score(k) >= score(j)
                    /\ \A j \in 1..(k - 1) : score(j) < score(k)
        selected_index == available_indices[best]
        sel == [present |-> TRUE, index |-> selected_index,
                card_type |-> EstimateCardType(selected_index),
                play_intent |-> DeterminePlayIntent(situation),
                situation |-> situation, available |-> available_indices,
                with_ai |-> with_ai, jitter |-> jitter]
    IN  IF n = 0 THEN Raise("ValueError", [sel |-> NoSelection, recent |-> recent])
        ELSE IF with_ai /\ ~ai.ok THEN Raise(ai.exc, [sel |-> NoSelection, recent |-> recent])
        ELSE Ok([sel |-> sel,
                 recent |-> IF selected_index \in SeqRange(recent) THEN recent
                            ELSE DequeAppend(recent, selected_index, RecentCardsCap)])

----------------------------------------------------------------------------
(* Inputs: what the environment and the random draws may be *)

Strip(green, total) == [green |-> green, total |-> total]

AllStrips(st) == [side \in {"our", "enemy"} |-> [k \in TowerKeys |-> st]]

\* all strips full; the enemy left tower damaged; the strips outside the frame
StripProfiles ==
    {AllStrips(Strip(51, 51)),
     [AllStrips(Strip(51, 51)) EXCEPT !["enemy"]["left"] = Strip(10, 51)],
     AllStrips(Strip(0, 0))}

Frame(hits, brightness, strips) ==
    [hits |-> hits, brightness |-> brightness, strips |-> strips]

BlankFrame == Frame({}, 90, AllStrips(Strip(51, 51)))

\* no frame captured yet
NoFrame == [frame |-> BlankFrame, at |-> 0]

\* frames with at most two probes matching
Frames ==
    {Frame(h, b, st) : h \in {x \in SUBSET (1..5) : Cardinality(x) <= 2},
                       b \in {NoSamples, 90, 101, 151, 201},
                       st \in StripProfiles}

\* frames for the tracker on its own: no probe matching, one, two of two
\* lanes, the two of lane LEFT; strips full, damaged, outside the frame; a
\* probe matching with none of its classification samples inside the frame
TrackerFrames ==
    {BlankFrame,
     Frame({}, 90, AllStrips(Strip(0, 0))),
     Frame({2}, 90, AllStrips(Strip(51, 51))),
     Frame({4}, 151, [AllStrips(Strip(51, 51)) EXCEPT !["enemy"]["left"] = Strip(10, 51)]),
     Frame({3, 5}, 201, [AllStrips(Strip(0, 0)) EXCEPT !["our"]["king"] = Strip(30, 40),
                                                       !["our"]["left"] = Strip(0, 51)]),
     Frame({1, 4}, 90, AllStrips(Strip(51, 51))),
     Frame({4}, NoSamples, AllStrips(Strip(0, 0)))}

FewFrames == {BlankFrame, Frame({4}, 90, AllStrips(Strip(51, 51))),
              Frame({1, 4}, 151, AllStrips(Strip(51, 51)))}

Hands == {<<>>, <<0, 1, 2, 3>>, <<1, 3>>}

\* the slot query answered from `from`: the same answer again, or a new one
\* while the run's changes are not used up
HandAnswers(from, HandSet) ==
    {from} \cup {[hand |-> h, changes |-> from.changes + 1] :
                    h \in IF from.changes < MaxHandChanges
                          THEN HandSet \ {from.hand} ELSE {}}

Rnd(coin, coin2, jit, pick) == [coin |-> coin, coin2 |-> coin2, jit |-> jit, pick |-> pick]

Rnds == {Rnd(c, c, j, k) : c \in BOOLEAN, j \in {-30, 30}, k \in {1, 2}}

Spells == {"fireball", "zap"}

MkUnit(pos, unit_type, lane) ==
    [position |-> pos, unit_type |-> unit_type, timestamp |-> ClockStart,
     threat_level |-> AssessThreatLevel(pos), lane |-> lane]

CriticalTank == MkUnit(<<150, 520>>, "tank", "LEFT")

HighSwarm == MkUnit(<<490, 350>>, "swarm", "RIGHT")

MediumDps == MkUnit(<<150, 285>>, "dps", "LEFT")

MkNeed(unit, rnd) ==
    [threat |-> unit,
     counter_position |-> CalculateCounterPosition(unit, rnd.jit),
     recommended_counter |-> RecommendCounterCard(unit, rnd.pick),
     urgency |-> ThreatValue(unit.threat_level)]

FixedRnd == Rnd(TRUE, TRUE, 30, 1)

NeedLists ==
    {<<>>, <<MkNeed(CriticalTank, FixedRnd)>>, <<MkNeed(HighSwarm, FixedRnd)>>,
     <<MkNeed(CriticalTank, FixedRnd), MkNeed(HighSwarm, FixedRnd)>>,
     <<MkNeed(MediumDps, FixedRnd)>>}

MkAnalysis(needs, should_push, advantage) ==
    [NoAnalysis EXCEPT !.present = TRUE, !.defensive_needs = needs,
                       !.should_push = should_push,
                       !.opportunity_score = IF should_push THEN 5 ELSE 2,
                       !.elixir_advantage = advantage]

\* the analyses a test double of analyze_situation returns
Analyses ==
    {MkAnalysis(n, p, a) : n \in NeedLists, p \in BOOLEAN, a \in {-2, 3}}

DefenseAnalysis == MkAnalysis(<<MkNeed(CriticalTank, FixedRnd)>>, FALSE, 0)

Play(t, cost, type) == [time |-> t, cost |-> cost, type |-> type, lane |-> "left"]

\* opponent-play histories: none; two spells 10 s apart among three plays; four
\* cheap plays; four dear plays just made; a spell pair and four cheap plays;
\* a dear play followed by four plays of cost 3
PlayHistories ==
    {<<>>,
     <<Play(ClockStart - 1500, 4, "spell"), Play(ClockStart - 900, 5, "troop"),
       Play(ClockStart - 500, 4, "spell")>>,
     <<Play(ClockStart - 4000, 2, "troop"), Play(ClockStart - 3500, 3, "troop"),
       Play(ClockStart - 3000, 3, "troop"), Play(ClockStart - 2500, 2, "troop")>>,
     <<Play(ClockStart - 30, 5, "troop"), Play(ClockStart - 20, 5, "troop"),
       Play(ClockStart - 10, NoKey, "troop"), Play(NoKey, 6, "troop")>>,
     <<Play(ClockStart - 1500, 2, "spell"), Play(ClockStart - 1000, 3, "troop"),
       Play(ClockStart - 700, 3, "troop"), Play(ClockStart - 500, 2, "spell")>>,
     <<Play(ClockStart - 5000, 9, "troop"), Play(ClockStart - 4000, 3, "troop"),
       Play(ClockStart - 3500, 3, "troop"), Play(ClockStart - 3000, 3, "troop"),
       Play(ClockStart - 2500, 3, "troop")>>}

UnitLists == {<<>>, <<CriticalTank>>, <<HighSwarm, CriticalTank>>, <<MediumDps>>}

PressureMaps ==
    {[l \in LaneSet |-> "NONE"],
     [l \in LaneSet |-> IF l = "LEFT" THEN "CRITICAL" ELSE "NONE"],
     [l \in LaneSet |-> IF l = "RIGHT" THEN "HIGH" ELSE "LOW"],
     [l \in LaneSet |-> "LOW"],
     [l \in LaneSet |-> IF l = "CENTER" THEN "MEDIUM" ELSE "NONE"]}

\* available-slot lists: none, one slot, a pair, three slots out of order
SlotSets == {<<>>, <<2>>, <<0, 1>>, <<3, 1, 0>>}

\* the default tag, a tag with priorities, a tag no table lists
SituationTags == {"neutral", "defense", "retreat"}

\* the intents the generator lists, and the cycle intent the selector emits
PlayIntents == {"offensive", "defensive", "counter", "push", "cycle"}

BattleTimes == {0, 2999, 3000, 11999, 12000, 18000, 18001}

----------------------------------------------------------------------------
(* Initial states *)

\* the tracker, selector and battle memory as the constructors leave them
Constructed ==
    /\ enemy_units = <<>>
    /\ pressure_lanes = [l \in LaneSet |-> "NONE"]
    /\ our_elixir = 0
    /\ enemy_elixir_estimate = 0
    /\ our_tower_health = [k \in TowerKeys |-> <<1, 1>>]
    /\ enemy_tower_health = [k \in TowerKeys |-> <<1, 1>>]
    /\ last_enemy_plays = <<>>
    /\ last_scan_time = 0
    /\ recent_cards = <<>>
    /\ successful_plays = <<>>
    /\ failed_plays = <<>>
    /\ opponent_weaknesses = EmptyTally

NoCall ==
    /\ pc = "idle" /\ entry = "none" /\ result = "none" /\ exc = "none"
    /\ battle_start_time = 0 /\ battle_elapsed = 0
    /\ analysis = NoAnalysis /\ decision = NoDecision /\ success = FALSE
    /\ recording_flag = FALSE /\ cycles = 0 /\ battles = 0
    /\ taps = <<>> /\ dispatched = 0 /\ records = 0 /\ selects = 0
    /\ selected = NoSelection
    /\ now = ClockStart /\ hand_changes = 0 /\ env_failed = FALSE
    /\ iar = NoFrame

\* The engine as constructed, with the real analyzer.
Init ==
    /\ Constructed /\ NoCall
    /\ hand \in Hands
    /\ supplied = NoAnalysis

\* The operations applied to inputs drawn from bounded sets: a game state
\* handed to the real analyzer, or an analysis handed to the steps after it by
\* a double of analyze_situation.
InitUnit ==
    /\ NoCall
    /\ hand \in Hands
    /\ last_scan_time = 0 /\ recent_cards = <<>>
    /\ successful_plays = <<>> /\ failed_plays = <<>>
    /\ opponent_weaknesses = EmptyTally
    /\ our_tower_health = [k \in TowerKeys |-> <<1, 1>>]
    /\ enemy_tower_health = [k \in TowerKeys |-> <<1, 1>>]
    /\ \/ /\ supplied = NoAnalysis
          /\ enemy_units \in UnitLists
          /\ pressure_lanes \in PressureMaps
          /\ \E e \in {<<0, 10>>, <<8, 2>>, <<5, 2>>, <<0, 2>>, <<4, 2>>} :
                our_elixir = e[1] /\ enemy_elixir_estimate = e[2]
          /\ last_enemy_plays = <<>>
       \/ /\ supplied \in Analyses
          /\ enemy_units = <<>>
          /\ pressure_lanes = [l \in LaneSet |-> "NONE"]
          /\ \E e \in {<<0, 10>>, <<8, 2>>} :
                our_elixir = e[1] /\ enemy_elixir_estimate = e[2]
          /\ last_enemy_plays \in PlayHistories

\* The selector as constructed, and the tactical context a caller may pass.
InitSelect ==
    /\ Constructed /\ NoCall
    /\ hand = <<>>
    /\ supplied \in {NoAnalysis, DefenseAnalysis, MkAnalysis(<<>>, TRUE, 3),
                      MkAnalysis(<<>>, FALSE, -2), MkAnalysis(<<>>, FALSE, 3)}

\* A long battle in which every cycle sees the same critical threat.
InitLong ==
    /\ Constructed /\ NoCall
    /\ hand \in {<<>>, <<0, 1, 2, 3>>}
    /\ supplied = DefenseAnalysis

\* opponent-play histories for the tracker on its own: those above, a play
\* stamped in the future, a free play about to leave the 10 s window, and
\* eight dear plays
TrackerHistories ==
    PlayHistories \cup
    {<<Play(ClockStart + 500, 10, "troop")>>,
     <<Play(ClockStart - 999, 0, "troop")>>,
     [k \in 1..EnemyPlaysCap |-> Play(ClockStart - 10 * k, 9, "troop")]}

\* A tracker whose opponent-play history was filled by its owner, about to be
\* scanned for the first time.
InitTracker ==
    /\ NoCall
    /\ hand = <<>> /\ supplied = NoAnalysis
    /\ enemy_units = <<>>
    /\ pressure_lanes = [l \in LaneSet |-> "NONE"]
    /\ our_elixir = 0 /\ enemy_elixir_estimate = 0
    /\ our_tower_health = [k \in TowerKeys |-> <<1, 1>>]
    /\ enemy_tower_health = [k \in TowerKeys |-> <<1, 1>>]
    /\ last_enemy_plays \in TrackerHistories
    /\ last_scan_time = 0 /\ recent_cards = <<>>
    /\ successful_plays = <<>> /\ failed_plays = <<>>
    /\ opponent_weaknesses = EmptyTally

\* A play-area generator over a tracker that holds a drawn unit list.
\* need lists for the pacing delay: the prefixes, of 0 to MaxNeeds needs, of
\* lists of urgency 2 throughout, 3 throughout, 4 throughout, and two mixed ones
DelayUrgencies ==
    {[k \in 1..MaxNeeds |-> "MEDIUM"],
     [k \in 1..MaxNeeds |-> "HIGH"],
     [k \in 1..MaxNeeds |-> "CRITICAL"],
     [k \in 1..MaxNeeds |-> <<"MEDIUM", "HIGH", "CRITICAL">>[(k % 3) + 1]],
     [k \in 1..MaxNeeds |-> <<"MEDIUM", "MEDIUM", "HIGH", "CRITICAL">>[(k % 4) + 1]]}

DelayNeedLists ==
    {[k \in 1..n |-> [MkNeed(MediumDps, FixedRnd) EXCEPT !.urgency = ThreatValue(u[k])]] :
        n \in 0..MaxNeeds, u \in DelayUrgencies}

\* random.uniform(0.05, 0.15), in 1/100 s
DelayVariations == {5, 10, 15}

\* An engine about to compute the pacing delay for an analysis it is handed.
InitDelay ==
    /\ Constructed /\ NoCall
    /\ hand = <<>>
    /\ supplied \in {MkAnalysis(needs, FALSE, 0) : needs \in DelayNeedLists}

InitPosition ==
    /\ NoCall
    /\ hand = <<>> /\ supplied = NoAnalysis
    /\ enemy_units \in UnitLists
    /\ pressure_lanes = [l \in LaneSet |-> "NONE"]
    /\ our_elixir = 0 /\ enemy_elixir_estimate = 0
    /\ our_tower_health = [k \in TowerKeys |-> <<1, 1>>]
    /\ enemy_tower_health = [k \in TowerKeys |-> <<1, 1>>]
    /\ last_enemy_plays = <<>>
    /\ last_scan_time = 0 /\ recent_cards = <<>>
    /\ successful_plays = <<>> /\ failed_plays = <<>>
    /\ opponent_weaknesses = EmptyTally

----------------------------------------------------------------------------
(* do_fight_state *)

\* do_fight_state(mode): started is what wait_for_battle_start answers. The
\* engine it builds is its own; the call ends here unless the engine could be
\* built, in which case the battle runs on a fresh engine.
StartFight ==
    /\ pc = "idle" /\ battles = 0
    /\ \E mode \in {"god", "random", "plain"}, started \in BOOLEAN :
        LET fails == IF mode = "plain"
                     THEN IF "_fight_loop" \in DefinedFunctions
                          THEN "unmodelled" ELSE "NameError"
                     ELSE IF ~EngineInit.ok THEN EngineInit.exc
                     ELSE IF mode = "random"
                          THEN GetMethod("_execute_random_battle_loop").exc
                     ELSE "none"
        IN  /\ fails # "unmodelled"
            /\ entry' = "do_fight_state"
            /\ IF ~started
               THEN /\ pc' = "idle" /\ result' = "false" /\ exc' = "none"
                    /\ UNCHANGED <<battle_start_time, cycles, battles, recording_flag>>
                    /\ UNCHANGED <<trackerVars, recent_cards, memoryVars>>
               ELSE IF fails # "none"
               THEN /\ pc' = "idle" /\ result' = "raised" /\ exc' = fails
                    /\ UNCHANGED <<battle_start_time, cycles, battles, recording_flag>>
                    /\ UNCHANGED <<trackerVars, recent_cards, memoryVars>>
               ELSE /\ pc' = "poll" /\ result' = "none" /\ exc' = "none"
                    /\ battle_start_time' = now /\ cycles' = 0 /\ battles' = 1
                    /\ recording_flag' \in BOOLEAN
                    /\ Constructed'
    /\ analysis' = NoAnalysis /\ decision' = NoDecision /\ success' = FALSE
    /\ battle_elapsed' = 0 /\ taps' = <<>> /\ env_failed' = FALSE
    /\ UNCHANGED <<now, hand, hand_changes, iar, supplied, dispatched, records, selects,
                   selected>>

----------------------------------------------------------------------------
(* execute_god_tier_battle *)

\* The call up to the loop: the start time is read and _initialize_battle_state
\* runs, outside the try block.
StartBattle(maxb) ==
    /\ pc = "idle" /\ battles < maxb
    /\ LET mem == InitializeBattleState([successful_plays |-> successful_plays,
                                         failed_plays |-> failed_plays,
                                         opponent_weaknesses |-> opponent_weaknesses])
       IN  /\ successful_plays' = mem.successful_plays
           /\ failed_plays' = mem.failed_plays
           /\ opponent_weaknesses' = mem.opponent_weaknesses
    /\ entry' = "execute_god_tier_battle" /\ result' = "none" /\ exc' = "none"
    /\ pc' = "poll" /\ battle_start_time' = now /\ cycles' = 0
    /\ battles' = battles + 1 /\ recording_flag' \in BOOLEAN
    /\ analysis' = NoAnalysis /\ decision' = NoDecision /\ success' = FALSE
    /\ battle_elapsed' = 0 /\ taps' = <<>> /\ env_failed' = FALSE
    /\ UNCHANGED <<now, hand, hand_changes, iar, trackerVars, recent_cards, supplied,
                   dispatched, records, selects, selected>>

\* a step of the loop raised: the except clause is entered
Throw(e, byEnv) ==
    /\ pc' = "caught" /\ exc' = e
    /\ env_failed' = (env_failed \/ byEnv)

\* while check_for_in_battle_with_delay(emulator): the poll takes dt; on False
\* the loop ends and the call returns True (do_fight_state then sleeps 10 s and
\* returns True as well).
Poll(Dts, maxc, Env) ==
    /\ pc = "poll"
    /\ \E dt \in Dts, out \in {"true", "false"} \cup (Env \ {"ok"}) :
        /\ now' = now + dt + (IF out = "false" /\ entry = "do_fight_state" THEN 1000 ELSE 0)
        /\ CASE out = "raise" ->
                  /\ Throw("EnvError", TRUE)
                  /\ UNCHANGED <<result, cycles, battle_elapsed, taps, analysis, decision>>
             [] out = "false" ->
                  /\ pc' = "idle" /\ result' = "true"
                  /\ UNCHANGED <<exc, env_failed, cycles, battle_elapsed, taps,
                                 analysis, decision>>
             [] out = "true" ->
                  /\ cycles < maxc
                  /\ pc' = "scan" /\ cycles' = cycles + 1
                  /\ battle_elapsed' = now' - battle_start_time
                  /\ taps' = <<>> /\ analysis' = NoAnalysis /\ decision' = NoDecision
                  /\ UNCHANGED <<result, exc, env_failed>>
    /\ UNCHANGED <<hand, hand_changes, iar, trackerVars, recent_cards, memoryVars, entry,
                   battle_start_time, success, recording_flag, supplied, battles,
                   dispatched, records, selects, selected>>

\* scan_battlefield returns: to the loop, which goes on to the analysis, or to
\* a caller of the tracker alone
ScanDone(caller) ==
    IF caller = "loop"
    THEN pc' = "analyze" /\ UNCHANGED <<exc, env_failed>>
    ELSE pc' = pc /\ result' = "returned" /\ exc' = "none" /\ env_failed' = FALSE

\* scan_battlefield raises e: into the loop's handler, or to the caller
ScanFail(caller, e, byEnv) ==
    IF caller = "loop"
    THEN Throw(e, byEnv)
    ELSE pc' = pc /\ result' = "raised" /\ exc' = e /\ env_failed' = byEnv

\* the tracker's writes of one scan of `frame`, in the order the code makes
\* them; a raise keeps the writes made before it
ScanWrites(frame, caller) ==
    LET d == DetectEnemyUnits(frame, now)
        u == UpdateThreatLevels(d.val, pressure_lanes)
    IN  IF ~d.ok
        THEN /\ ScanFail(caller, d.exc, FALSE)
             /\ UNCHANGED trackerVars
        ELSE /\ enemy_units' = d.val
             /\ enemy_elixir_estimate' = EstimateEnemyElixir(last_enemy_plays, now)
             /\ enemy_tower_health' = AnalyzeTowerHealth(frame, "enemy")
             /\ our_tower_health' = AnalyzeTowerHealth(frame, "our")
             /\ pressure_lanes' = u.val
             /\ UNCHANGED <<our_elixir, last_enemy_plays>>
             /\ IF u.ok
                THEN last_scan_time' = now /\ ScanDone(caller)
                ELSE ScanFail(caller, u.exc, FALSE) /\ UNCHANGED last_scan_time

\* scan_battlefield(emulator): the rate limiter, the capture, the writes
ScanBattlefield(FrameSet, Env, caller) ==
    IF now - last_scan_time < ScanInterval
    THEN ScanDone(caller) /\ UNCHANGED <<trackerVars, iar>>
    ELSE \E frame \in FrameSet, shot \in Env :
            IF shot = "raise"
            THEN /\ ScanFail(caller, "EnvError", TRUE)
                 /\ UNCHANGED <<trackerVars, iar>>
            ELSE /\ iar' = [frame |-> frame, at |-> now]
                 /\ ScanWrites(frame, caller)

\* self.enemy_tracker.scan_battlefield(emulator) in the loop
Scan(FrameSet, Env) ==
    /\ pc = "scan"
    /\ ScanBattlefield(FrameSet, Env, "loop")
    /\ UNCHANGED <<now, hand, hand_changes, recent_cards, memoryVars, entry, result,
                   battle_start_time, battle_elapsed, analysis, decision, success,
                   recording_flag, supplied, cycles, battles, ghostVars>>

\* what tactical_ai.analyze_situation() gives: the double's analysis, or the
\* real analyzer's result on the game state
AnalysisResult(rnd) ==
    IF supplied.present THEN Ok(supplied)
    ELSE AnalyzeSituation(enemy_units, pressure_lanes, enemy_tower_health,
                          our_elixir, enemy_elixir_estimate, now, rnd)

Analyze(RndSet) ==
    /\ pc = "analyze"
    /\ \E rnd \in RndSet :
        LET r == AnalysisResult(rnd)
        IN  IF r.ok
            THEN /\ analysis' = r.val /\ pc' = "decide"
                 /\ UNCHANGED <<exc, env_failed>>
            ELSE /\ Throw(r.exc, FALSE)
                 /\ UNCHANGED analysis
    /\ UNCHANGED <<now, hand, hand_changes, iar, trackerVars, recent_cards, memoryVars,
                   entry, result, battle_start_time, battle_elapsed, decision, success,
                   recording_flag, supplied, cycles, battles, ghostVars>>

\* a handler that goes back to the loop instead of returning
CaughtRetry ==
    /\ pc = "caught"
    /\ pc' = "poll"
    /\ UNCHANGED <<envVars, trackerVars, recent_cards, memoryVars, entry, exc, result,
                   battle_start_time, battle_elapsed, analysis, decision, success,
                   recording_flag, supplied, cycles, battles, ghostVars>>

\* except Exception: the status is reported and the call returns False
Caught ==
    /\ pc = "caught"
    /\ pc' = "idle" /\ result' = "false"
    /\ UNCHANGED <<envVars, trackerVars, recent_cards, memoryVars, entry, exc,
                   battle_start_time, battle_elapsed, analysis, decision, success,
                   recording_flag, supplied, cycles, battles, ghostVars>>


\* decision = self._make_strategic_decision(analysis, battle_elapsed)
Decide(SpellSet) ==
    /\ pc = "decide"
    /\ \E spell \in SpellSet :
        decision' = MakeStrategicDecision(analysis, battle_elapsed, our_elixir,
                                          enemy_elixir_estimate, last_enemy_plays, spell)
    /\ pc' = "dispatch"
    /\ UNCHANGED <<envVars, trackerVars, recent_cards, memoryVars, entry, result, exc,
                   battle_start_time, battle_elapsed, analysis, success,
                   recording_flag, supplied, cycles, battles, ghostVars>>

\* which of `calls` may raise: any one when the collaborators may fail
FailPoints(calls, Env) == IF "raise" \in Env THEN 0..Len(calls) ELSE {0}

\* a routine made `calls` of which call f raised (0: none) and would return ret
AfterRoutine(calls, ret, f) ==
    LET r == RunCalls(calls, ret, f)
    IN  /\ taps' = taps \o r.taps
        /\ now' = now + r.slept
        /\ IF r.out.ok
           THEN /\ success' = r.out.val /\ pc' = "learn"
                /\ dispatched' = dispatched + 1
                /\ UNCHANGED <<exc, env_failed>>
           ELSE /\ Throw(r.out.exc, TRUE)
                /\ UNCHANGED <<success, dispatched>>

\* dispatch to _execute_emergency_defense: q1 and q2 are the answers of its
\* slot query and of the follow-up's
DispatchDefense(HandSet, Jits, Env) ==
    /\ pc = "dispatch"
    /\ RoutineOf(decision.action) = "_execute_emergency_defense"
    /\ \E q1 \in HandAnswers([hand |-> hand, changes |-> hand_changes], HandSet), jx \in Jits :
        \E q2 \in HandAnswers(q1, HandSet) :
            LET e == EmergencyDefense(decision, q1.hand, q2.hand, jx, jx \div 2)
                asked_twice(f) == \E k \in 2..Len(e.calls) :
                                      e.calls[k].call = "query" /\ (f = 0 \/ f >= k)
            IN  \E f \in FailPoints(e.calls, Env) :
                    /\ asked_twice(f) \/ q2 = q1
                    /\ AfterRoutine(e.calls, e.ret, f)
                    /\ hand' = q2.hand /\ hand_changes' = q2.changes
    /\ UNCHANGED <<iar, trackerVars, recent_cards, memoryVars, entry, result,
                   battle_start_time, battle_elapsed, analysis, decision,
                   recording_flag, supplied, cycles, battles, records, selects, selected>>

\* dispatch to a routine that is not defined, or whose first statement calls
\* a method that is not: the lookup raises AttributeError
DispatchUndefined ==
    /\ pc = "dispatch"
    /\ ~GetMethod(FirstLookup(decision)).ok
    /\ Throw("AttributeError", FALSE)
    /\ UNCHANGED <<now, hand, hand_changes, iar, trackerVars, recent_cards, memoryVars, entry,
                   result, battle_start_time, battle_elapsed, analysis, decision, success,
                   recording_flag, supplied, cycles, battles, ghostVars>>

\* a recording step that empties the opponent-play history it stores with the
\* record
LearnClearingPlays ==
    /\ pc = "learn"
    /\ LET rec == PlayRecord(decision, success, records + 1)
       IN  IF success
           THEN /\ successful_plays' = LogAppend(successful_plays, rec, SuccessCap)
                /\ UNCHANGED failed_plays
                /\ pc' = "emote"
           ELSE /\ failed_plays' = LogAppend(failed_plays, rec, FailureCap)
                /\ UNCHANGED successful_plays
                /\ pc' = "delay"
    /\ opponent_weaknesses' = UpdateOpponentProfile(opponent_weaknesses, decision.action, success)
    /\ records' = records + 1
    /\ last_enemy_plays' = <<>>
    /\ UNCHANGED <<envVars, enemy_units, pressure_lanes, our_elixir,
                   enemy_elixir_estimate, our_tower_health, enemy_tower_health,
                   last_scan_time, recent_cards, entry, result, exc,
                   battle_start_time, battle_elapsed, analysis, decision, success,
                   recording_flag, supplied, cycles, battles, taps, dispatched,
                   selects, selected>>

\* _learn_from_play(decision, success); the emote follows only a success
Learn ==
    /\ pc = "learn"
    /\ LET rec == PlayRecord(decision, success, records + 1)
       IN  IF success
           THEN /\ successful_plays' = LogAppend(successful_plays, rec, SuccessCap)
                /\ UNCHANGED failed_plays
                /\ pc' = "emote"
           ELSE /\ failed_plays' = LogAppend(failed_plays, rec, FailureCap)
                /\ UNCHANGED successful_plays
                /\ pc' = "delay"
    /\ opponent_weaknesses' = UpdateOpponentProfile(opponent_weaknesses, decision.action, success)
    /\ records' = records + 1
    /\ UNCHANGED <<envVars, trackerVars, recent_cards, entry, result, exc,
                   battle_start_time, battle_elapsed, analysis, decision, success,
                   recording_flag, supplied, cycles, battles, taps, dispatched,
                   selects, selected>>

\* _apply_psychological_pressure: k = 0 when random.random() >= 0.15, else the
\* emote chosen
Emote(EmoteSet, Env) ==
    /\ pc = "emote"
    /\ \E k \in EmoteSet :
        IF k = 0
        THEN /\ pc' = "delay"
             /\ UNCHANGED <<now, taps, exc, env_failed>>
        ELSE \E f \in FailPoints(EmoteCalls(k), Env) :
                LET r == RunCalls(EmoteCalls(k), TRUE, f)
                IN  /\ taps' = taps \o r.taps
                    /\ now' = now + r.slept
                    /\ IF r.out.ok
                       THEN pc' = "delay" /\ UNCHANGED <<exc, env_failed>>
                       ELSE Throw(r.out.exc, TRUE)
    /\ UNCHANGED <<hand, hand_changes, iar, trackerVars, recent_cards, memoryVars, entry,
                   result, battle_start_time, battle_elapsed, analysis, decision, success,
                   recording_flag, supplied, cycles, battles, dispatched, records,
                   selects, selected>>

\* time.sleep(self._calculate_human_like_delay(analysis)), then the recording
\* screenshot when recording_flag is set
Delay(Variations, Env) ==
    /\ pc = "delay"
    /\ \E v \in Variations, shot \in Env :
        /\ now' = now + CalculateHumanLikeDelay(analysis, v)
        /\ IF shot = "raise"
           THEN recording_flag /\ Throw("EnvError", TRUE)
           ELSE pc' = "poll" /\ UNCHANGED <<exc, env_failed>>
    /\ UNCHANGED <<hand, hand_changes, iar, trackerVars, recent_cards, memoryVars, entry,
                   result, battle_start_time, battle_elapsed, analysis, decision, success,
                   recording_flag, supplied, cycles, battles, ghostVars>>

----------------------------------------------------------------------------
(* Operations called on their own *)

\* _make_strategic_decision(analysis, battle_time) called with the double's
\* analysis
CallDecide(TimeSet, SpellSet) ==
    /\ pc = "idle" /\ battles = 0 /\ supplied.present
    /\ \E bt \in TimeSet, spell \in SpellSet :
        /\ battle_elapsed' = bt
        /\ decision' = MakeStrategicDecision(supplied, bt, our_elixir,
                                             enemy_elixir_estimate, last_enemy_plays, spell)
    /\ analysis' = supplied
    /\ entry' = "_make_strategic_decision" /\ result' = "returned" /\ exc' = "none"
    /\ UNCHANGED <<envVars, trackerVars, recent_cards, memoryVars, pc, battle_start_time,
                   success, recording_flag, supplied, cycles, battles, ghostVars>>

\* analyze_situation() of the real analyzer called on the game state
CallAnalyze(RndSet) ==
    /\ pc = "idle" /\ battles = 0 /\ ~supplied.present
    /\ \E rnd \in RndSet :
        LET r == AnalysisResult(rnd)
        IN  /\ analysis' = r.val
            /\ result' = (IF r.ok THEN "returned" ELSE "raised")
            /\ exc' = r.exc
    /\ entry' = "analyze_situation" /\ decision' = NoDecision
    /\ UNCHANGED <<envVars, trackerVars, recent_cards, memoryVars, pc, battle_start_time,
                   battle_elapsed, success, recording_flag, supplied, cycles, battles,
                   ghostVars>>

\* _determine_play_style() of the real analyzer called on the game state
CallDeterminePlayStyle ==
    /\ pc = "idle" /\ battles = 0 /\ ~supplied.present
    /\ analysis' = [NoAnalysis EXCEPT
                       !.pressure_situation = AnalyzePressure(pressure_lanes),
                       !.recommended_play_style =
                           DeterminePlayStyle(pressure_lanes, our_elixir, enemy_elixir_estimate)]
    /\ result' = "returned" /\ exc' = "none"
    /\ entry' = "_determine_play_style" /\ decision' = NoDecision
    /\ UNCHANGED <<envVars, trackerVars, recent_cards, memoryVars, pc, battle_start_time,
                   battle_elapsed, success, recording_flag, supplied, cycles, battles,
                   ghostVars>>

\* get_optimal_play_position(card_type, target_lane, play_intent) called on a
\* generator with or without a tactical context over the game state; the
\* position it returns is kept in the target of the call's record
\* time.sleep(self._calculate_human_like_delay(analysis)) on the analysis
\* handed to the engine
CallDelay(Variations) ==
    /\ pc = "idle"
    /\ \E v \in Variations :
        /\ now' = now + CalculateHumanLikeDelay(supplied, v)
        /\ now' - ClockStart <= MaxElapsed
    /\ analysis' = supplied
    /\ entry' = "_calculate_human_like_delay" /\ result' = "returned"
    /\ UNCHANGED <<hand, hand_changes, env_failed, iar, trackerVars, recent_cards,
                   memoryVars, pc, exc, battle_start_time, battle_elapsed, decision,
                   success, recording_flag, supplied, cycles, battles, ghostVars>>

CallGetPosition(IntentSet, RndSet) ==
    /\ pc = "idle"
    /\ \E card_type \in CardTypes, lane \in LaneSet, intent \in IntentSet,
          with_ai \in BOOLEAN, rnd \in RndSet :
        LET r == GetOptimalPlayPosition(card_type, lane, intent, with_ai, enemy_units, rnd)
        IN  /\ decision' = [NoDecision EXCEPT !.type = intent, !.lane = lane,
                                              !.target.counter_position = r.val,
                                              !.target.recommended_counter = card_type]
            /\ result' = (IF r.ok THEN "returned" ELSE "raised")
            /\ exc' = r.exc
    /\ entry' = "get_optimal_play_position" /\ analysis' = NoAnalysis
    /\ UNCHANGED <<envVars, trackerVars, recent_cards, memoryVars, pc, battle_start_time,
                   battle_elapsed, success, recording_flag, supplied, cycles, battles,
                   ghostVars>>

\* _evaluate_push_opportunity() of the real analyzer called on the game state;
\* coin is the draw of its _select_priority_lane
CallEvaluatePush(Coins) ==
    /\ pc = "idle" /\ battles = 0 /\ ~supplied.present
    /\ \E coin \in Coins :
        LET r == EvaluatePushOpportunity(pressure_lanes, enemy_tower_health, our_elixir,
                                        enemy_elixir_estimate, now, coin)
        IN  /\ analysis' = (IF r.ok
                            THEN [NoAnalysis EXCEPT !.should_push = r.val.should_push,
                                                    !.opportunity_score = r.val.opportunity_score,
                                                    !.recommended_lane = r.val.recommended_lane,
                                                    !.push_type = r.val.push_type]
                            ELSE NoAnalysis)
            /\ result' = (IF r.ok THEN "returned" ELSE "raised")
            /\ exc' = r.exc
    /\ entry' = "_evaluate_push_opportunity" /\ decision' = NoDecision
    /\ UNCHANGED <<envVars, trackerVars, recent_cards, memoryVars, pc, battle_start_time,
                   battle_elapsed, success, recording_flag, supplied, cycles, battles,
                   ghostVars>>

\* select_optimal_card(available_indices, situation, tactical_ai)
CallSelect(Avails, Situations, AiSet, JitterSet, RndSet) ==
    /\ pc = "idle" /\ battles = 0 /\ selects < MaxSelects
    /\ \E avail \in Avails, situation \in Situations, with_ai \in AiSet, rnd \in RndSet :
        \E jitter \in [1..Len(avail) -> JitterSet] :
            LET r == SelectOptimalCard(avail, situation, with_ai, AnalysisResult(rnd),
                                       recent_cards, jitter)
            IN  /\ selected' = [r.val.sel EXCEPT !.available = avail, !.with_ai = with_ai]
                /\ recent_cards' = r.val.recent
                /\ result' = (IF r.ok THEN "returned" ELSE "raised")
                /\ exc' = r.exc
    /\ entry' = "select_optimal_card" /\ selects' = selects + 1
    /\ UNCHANGED <<envVars, trackerVars, memoryVars, pc, battle_start_time,
                   battle_elapsed, analysis, decision, success, recording_flag, supplied,
                   cycles, battles, taps, dispatched, records>>

\* scan_battlefield(emulator) called on the tracker
CallScan(FrameSet, Env) ==
    /\ pc = "idle"
    /\ ScanBattlefield(FrameSet, Env, "test")
    /\ entry' = "scan_battlefield"
    /\ UNCHANGED <<now, hand, hand_changes, recent_cards, memoryVars,
                   battle_start_time, battle_elapsed, analysis, decision, success,
                   recording_flag, supplied, cycles, battles, ghostVars>>

\* time passes between two calls
Advance(Dts) ==
    /\ pc = "idle"
    /\ \E dt \in Dts : now' = now + dt /\ now' - ClockStart <= MaxElapsed
    /\ UNCHANGED <<hand, hand_changes, env_failed, iar, trackerVars, recent_cards,
                   memoryVars, callVars, ghostVars>>

----------------------------------------------------------------------------
(* Specifications *)

MayFail == {"ok", "raise"}      \* the collaborators may raise

NeverFail == {"ok"}             \* they never do

\* The program as it runs from construction, with the real analyzer.
Next ==
    \/ StartFight
    \/ StartBattle(MaxBattles)
    \/ Poll({20, 3000}, MaxCycles, MayFail)
    \/ Scan(Frames, MayFail)
    \/ Analyze({FixedRnd})
    \/ Caught

Spec == Init /\ [][Next]_vars

\* the analyses the double returns in the battles that are run
BattleAnalyses ==
    {MkAnalysis(<<MkNeed(CriticalTank, FixedRnd)>>, FALSE, -2),
     MkAnalysis(<<MkNeed(MediumDps, FixedRnd)>>, FALSE, -2),
     MkAnalysis(<<>>, TRUE, 3), MkAnalysis(<<>>, FALSE, -2)}

\* the drawn inputs on which battles are run: the others serve the operations
\* called on their own
BattleInputs ==
    \/ ~supplied.present /\ enemy_units = <<>> /\ pressure_lanes = [l \in LaneSet |-> "NONE"]
    \/ /\ supplied \in BattleAnalyses
       /\ our_elixir = 0 \/ supplied.should_push
       /\ Len(last_enemy_plays) \in {0, 3}

\* The operations on drawn inputs: the loop with the analysis a double
\* returns or the real analyzer on a drawn game state, and the operations
\* called on their own.
NextUnit ==
    \/ StartBattle(IF BattleInputs THEN MaxBattles ELSE 0)
    \/ Poll({20}, MaxCycles, MayFail)
    \/ Scan({BlankFrame}, MayFail)
    \/ Analyze({FixedRnd})
    \/ Decide({"fireball"})
    \/ DispatchDefense({<<>>, <<0, 1, 2, 3>>}, {20}, MayFail)
    \/ DispatchUndefined
    \/ Learn
    \/ Emote({0, 1}, MayFail)
    \/ Delay({5}, MayFail)
    \/ Caught
    \/ CallDecide(BattleTimes, Spells)
    \/ CallAnalyze(Rnds)
    \/ CallEvaluatePush(BOOLEAN)
    \/ CallDeterminePlayStyle

SpecUnit == InitUnit /\ [][NextUnit]_vars

\* The next slot a caller asks select_optimal_card about in the long run:
\* slot 0, then 1, ... one at a time.
NextAvail == {<<selects>>}

\* A long battle on an engine in a pinned environment: the caller first makes
\* its selections, then runs one battle in which every poll takes 0.2 s, every
\* frame is blank, every cycle sees the same critical threat, no emote is
\* drawn and no collaborator fails.
NextLong ==
    \/ StartBattle(IF selects = MaxSelects THEN 1 ELSE 0)
    \/ Poll({20}, MaxLongCycles, NeverFail)
    \/ Scan({BlankFrame}, NeverFail)
    \/ Analyze({FixedRnd})
    \/ Decide({"fireball"})
    \/ DispatchDefense({<<>>, <<0, 1, 2, 3>>}, {20}, NeverFail)
    \/ Learn
    \/ Emote({0}, NeverFail)
    \/ Delay({5}, NeverFail)
    \/ CallSelect(NextAvail, {"neutral"}, {FALSE}, {0}, {FixedRnd})

SpecLong == InitLong /\ [][NextLong]_vars

\* The tracker on its own: scans of drawn frames with time passing between
\* them.
NextTracker ==
    \/ CallScan(TrackerFrames, MayFail)
    \/ Advance({20, 30})

SpecTracker == InitTracker /\ [][NextTracker]_vars

\* The play-area generator called on its own.
NextPosition ==
    CallGetPosition(PlayIntents, {[dx |-> 10, dy |-> -10, pick |-> 2],
                                  [dx |-> -25, dy |-> 15, pick |-> 1]})

SpecPosition == InitPosition /\ [][NextPosition]_vars

\* The pacing delay on its own, over need lists of every length.
NextDelay ==
    CallDelay(DelayVariations)

SpecDelay == InitDelay /\ [][NextDelay]_vars

\* The selector called on its own: any slot set, situation tag and jitter,
\* without a tactical context or with one (the real analyzer on the constructed
\* game state, or a double returning an analysis).
NextSelect ==
    /\ selects < MaxScoredSelects
    /\ CallSelect(SlotSets, SituationTags, BOOLEAN, {-4, 4}, {FixedRnd})

SpecSelect == InitSelect /\ [][NextSelect]_vars

----------------------------------------------------------------------------
(* Properties *)

\* the decide step has just returned, in a cycle or called on its own: analysis
\* and battle_elapsed are its arguments and the game state is as it read it
Decided ==
    \/ pc = "dispatch"
    \/ pc = "idle" /\ entry = "_make_strategic_decision" /\ result = "returned"

UrgentDefenseTrigger ==
    \E k \in 1..Len(analysis.defensive_needs) : analysis.defensive_needs[k].urgency >= 3

OverwhelmingPushTrigger ==
    analysis.should_push /\ our_elixir >= 7 /\ enemy_elixir_estimate <= 3

SpellPatternTrigger == DetectSpellPattern(last_enemy_plays)

AdvancedOpportunityTrigger ==
    \/ battle_elapsed > 18000 /\ analysis.elixir_advantage >= 3
    \/ DetectOpponentCycleVulnerability(last_enemy_plays)

\* the rank of the trigger a Decision belongs to: 1 urgent defense, 2
\* overwhelming push, 3 spell pattern, 4 advanced opportunity, 5 tempo fallback
TriggerRank(d) ==
    CASE d.action = "immediate_defense" -> 1
      [] d.action = "push" /\ d.type = "punishment_push" -> 2
      [] d.action = "spell_prediction" -> 3
      [] d.action \in {"overtime_push", "cycle_break"} -> 4
      [] d.action \in {"conservative_opening", "tempo_control", "endgame_tactics"} -> 5
      [] OTHER -> 0

HighestTrigger ==
    IF UrgentDefenseTrigger THEN 1
    ELSE IF OverwhelmingPushTrigger THEN 2
    ELSE IF SpellPatternTrigger THEN 3
    ELSE IF AdvancedOpportunityTrigger THEN 4
    ELSE 5

\* C1: whenever the decide step has returned, it has emitted one Decision, and
\* that Decision belongs to the highest-precedence trigger that is satisfied
\* (urgent defense, then overwhelming push, then spell pattern, then advanced
\* opportunity, then the tempo fallback): no lower trigger's Decision is emitted
\* while a higher trigger is satisfied.
C1_DecisionPrecedence ==
    Decided => /\ decision.present
               /\ TriggerRank(decision) = HighestTrigger

\* the decide step returned with the defense, push and spell triggers all
\* satisfied
C1_Witness ==
    /\ Decided /\ UrgentDefenseTrigger /\ OverwhelmingPushTrigger
    /\ SpellPatternTrigger /\ AdvancedOpportunityTrigger
    /\ decision.action = "immediate_defense"

\* one step of a call of execute_god_tier_battle that is under way
C2_Step ==
    (entry = "execute_god_tier_battle" /\ pc # "idle") =>
        /\ exc' # exc => pc' = "caught" /\ exc = "none"
        /\ pc' = "caught" /\ pc # "caught" => exc' # "none"
        /\ pc' = "idle" => result' \in {"true", "false"}
        /\ result' = "true" => pc = "poll" /\ exc = "none"
        /\ result' = "false" => pc = "caught" /\ exc # "none"
        /\ pc = "caught" =>
              /\ pc' = "idle" /\ result' = "false"
              /\ UNCHANGED <<trackerVars, memoryVars, recent_cards, taps, decision,
                             analysis, cycles, dispatched, records>>

C3_CompletesWithoutCollaboratorFailure ==
    (entry = "execute_god_tier_battle" /\ ~env_failed) =>
        pc # "caught" /\ result # "false"

\* C4: once the battle has started, do_fight_state ends by returning a boolean
\* in every fight mode: no failure of building the engine or of running the
\* battle escapes to the caller.
C4_FightStateReturnsBoolean ==
    (entry = "do_fight_state" /\ pc = "idle") => result \in {"true", "false"}

\* C5: the dispatch of a Decision the decide step produced runs a routine that
\* returns a success boolean, and the cycle goes on to the recording step: the
\* dispatch step aborts the battle only when a collaborator failed.
C5_DispatchReachesRecording ==
    [][pc = "dispatch" => (pc' = "learn" /\ success' \in BOOLEAN) \/ env_failed']_vars

\* a bounded history went from old to new in one step: unchanged, cleared, or
\* one entry added at the end, with the oldest evicted when old was full
FifoStep(old, new, cap) ==
    \/ new = old
    \/ new = <<>>
    \/ /\ Len(new) > 0
       /\ new = IF Len(old) < cap THEN Append(old, new[Len(new)])
                ELSE Append(Tail(old), new[Len(new)])

C6_Bounded ==
    /\ Len(last_enemy_plays) <= 8
    /\ Len(recent_cards) <= 4
    /\ Len(successful_plays) <= 20
    /\ Len(failed_plays) <= 10

C6_Fifo ==
    /\ FifoStep(last_enemy_plays, last_enemy_plays', 8)
    /\ FifoStep(recent_cards, recent_cards', 4)
    /\ FifoStep(successful_plays, successful_plays', 20)
    /\ FifoStep(failed_plays, failed_plays', 10)

\* C6: after any sequence of scans, selections and cycles the opponent-play
\* history holds at most 8 entries, the recently-used window at most 4, the
\* success log at most 20 and the failure log at most 10; an entry added to a
\* full history evicts the oldest entry and keeps the order of the others.
C6_BoundedFifoHistories == [](C6_Bounded) /\ [][C6_Fifo]_vars

\* the window and both logs are full and have each evicted their oldest entry:
\* slots 0 and 1 left the window, the first failure and the first success
\* left their logs
C6_Witness ==
    /\ recent_cards = <<2, 3, 4, 5>>
    /\ Len(failed_plays) = 10 /\ failed_plays[1].order = 2
    /\ Len(successful_plays) = 20 /\ successful_plays[1].order = 13

\* the action kinds the decide step emits
ActionKinds ==
    <<"immediate_defense", "push", "spell_prediction", "overtime_push", "cycle_break",
      "conservative_opening", "tempo_control", "endgame_tactics">>

\* the tally of an action kind; a kind never attempted has no entry
TallyOf(tally, a) == IF a \in DOMAIN tally THEN tally[a] ELSE [success |-> 0, total |-> 0]

TotalAttempts == SeqSum([i \in 1..Len(ActionKinds) |-> TallyOf(opponent_weaknesses, ActionKinds[i]).total])

\* a log got exactly the record of this cycle's Decision and outcome
Recorded(old, new) ==
    /\ Len(new) = Len(old) + 1
    /\ SubSeq(new, 1, Len(old)) = old
    /\ new[Len(new)].decision = decision
    /\ new[Len(new)].success = success

\* the recording step of a cycle whose routine returned `success`
C7_RecordStep ==
    pc = "learn" =>
        /\ IF success
           THEN Recorded(successful_plays, successful_plays') /\ UNCHANGED failed_plays
           ELSE Recorded(failed_plays, failed_plays') /\ UNCHANGED successful_plays
        /\ \A i \in 1..Len(ActionKinds) :
              LET a == ActionKinds[i]
                  old == TallyOf(opponent_weaknesses, a)
                  new == TallyOf(opponent_weaknesses', a)
              IN  IF a = decision.action
                  THEN /\ new.total = old.total + 1
                       /\ new.success = old.success + (IF success THEN 1 ELSE 0)
                  ELSE new = old

C7_Tally ==
    /\ DOMAIN opponent_weaknesses \subseteq SeqRange(ActionKinds)
    /\ \A a \in DOMAIN opponent_weaknesses :
          opponent_weaknesses[a].success <= opponent_weaknesses[a].total
    /\ TotalAttempts = dispatched - (IF pc = "learn" THEN 1 ELSE 0)

\* C7: in every cycle whose routine returns, exactly one (Decision, success)
\* record is stored, in the success log when success is true and in the
\* failure log when false, and the tally of the Decision's action kind gets
\* attempts+1 and successes+1 only on success; so for every kind successes <=
\* attempts, and the attempts of all kinds sum to the number of dispatched
\* Decisions (the Decision being recorded counted once its record is made).
C7_OneRecordPerCycle == [](C7_Tally) /\ [][C7_RecordStep]_vars

\* one battle recorded a successful and a failed defense
C7_Witness ==
    /\ pc = "delay" /\ battles = 1
    /\ Len(successful_plays) = 1 /\ Len(failed_plays) = 1
    /\ TallyOf(opponent_weaknesses, "immediate_defense") = [success |-> 1, total |-> 2]

\* C8: at the start of every battle run on an engine, a second battle
\* included, the success log, the failure log and the per-action-kind tally
\* are all empty before the first cycle.
C8_MemoryResetAtBattleStart ==
    (entry = "execute_god_tier_battle" /\ pc = "poll" /\ cycles = 0) =>
        /\ successful_plays = <<>>
        /\ failed_plays = <<>>
        /\ DOMAIN opponent_weaknesses = {}

\* the ordinals of the threats of the units recorded in lane
LaneThreats(lane) ==
    {ThreatValue(enemy_units[k].threat_level) :
        k \in {i \in 1..Len(enemy_units) : enemy_units[i].lane = lane}}

LanePressureIsMax ==
    \A lane \in LaneSet :
        /\ LaneThreats(lane) = {} => pressure_lanes[lane] = "NONE"
        /\ LaneThreats(lane) # {} =>
              /\ ThreatValue(pressure_lanes[lane]) \in LaneThreats(lane)
              /\ \A v \in LaneThreats(lane) : v <= ThreatValue(pressure_lanes[lane])

\* C9: every comparison between two threat levels made by the tracker, the
\* analyzer and the planner yields a result (none raises TypeError), and after
\* every completed scan each lane's pressure is the maximum threat of the
\* units detected in that lane, two or more units in one lane included, and
\* NONE for a lane without units.
C9_ThreatOrderAndLanePressure ==
    /\ exc # "TypeError"
    /\ pc = "scan" => LanePressureIsMax
    /\ pc = "analyze" => LanePressureIsMax

HighUnits == SelectSeq(enemy_units, LAMBDA u : ThreatValue(u.threat_level) >= 3)

\* the Decision of a cycle at battle time 0 on the analysis just returned
C10_Decision ==
    MakeStrategicDecision(analysis, 0, our_elixir, enemy_elixir_estimate,
                          last_enemy_plays, "fireball")

\* C10: whenever the game state holds a unit at HIGH or CRITICAL threat,
\* analyze_situation returns an analysis with exactly one defensive need per
\* such unit, of urgency the unit's threat ordinal, sorted by descending
\* urgency, and the Decision made on it is immediate_defense (priority 5,
\* confidence 0.95) with a target of maximum urgency.
C10_DefensiveNeedsAndDefense ==
    (pc = "idle" /\ entry = "analyze_situation" /\ Len(HighUnits) > 0) =>
        /\ result = "returned"
        /\ Len(analysis.defensive_needs) = Len(HighUnits)
        /\ \A k \in 1..Len(HighUnits) :
              \E j \in 1..Len(analysis.defensive_needs) :
                  /\ analysis.defensive_needs[j].threat = HighUnits[k]
                  /\ analysis.defensive_needs[j].urgency = ThreatValue(HighUnits[k].threat_level)
        /\ \A j \in 1..(Len(analysis.defensive_needs) - 1) :
              analysis.defensive_needs[j].urgency >= analysis.defensive_needs[j + 1].urgency
        /\ C10_Decision.action = "immediate_defense"
        /\ C10_Decision.priority = 5 /\ C10_Decision.confidence = 95
        /\ \A j \in 1..Len(analysis.defensive_needs) :
              analysis.defensive_needs[j].urgency <= C10_Decision.target.urgency

\* scan_battlefield, called on the tracker, has just returned from a scan that
\* captured a frame
ScanCompleted ==
    /\ pc = "idle" /\ entry = "scan_battlefield" /\ result = "returned"
    /\ iar.at = now /\ last_scan_time = now

\* C11: for every opponent-play history (any costs and timestamps, entries
\* without cost or time, the empty history) and every clock reading, the
\* opponent resource estimate a scan writes is an integer in [0, 10].
C11_ElixirEstimateInRange ==
    enemy_elixir_estimate \in 0..10

\* a scan wrote the estimate 0 for a history of eight plays of cost 9 in the
\* last 10 s, whose unclamped value is negative
C11_Witness ==
    /\ ScanCompleted
    /\ Len(last_enemy_plays) = EnemyPlaysCap
    /\ enemy_elixir_estimate = 0

\* the health <<num, den>> written for a tower is the fraction of the strip's
\* in-frame pixels that match, or 1 when none is in the frame
HealthOfStrip(health, strip) ==
    /\ health[2] > 0 /\ 0 <= health[1] /\ health[1] <= health[2]
    /\ strip.total > 0 => health[1] * strip.total = strip.green * health[2]
    /\ strip.total = 0 => health[1] = health[2]

\* C12: after a scan of any frame each of the six tower healths lies in [0, 1]
\* and is (matching pixels)/(in-frame pixels) of the tower's strip, and 1.0
\* when no pixel of the strip is in the frame; a frame all of whose strips and
\* probes lie outside it does not make the scan fail.
C12_TowerHealthIsStripFraction ==
    /\ ScanCompleted =>
          \A k \in TowerKeys :
              /\ HealthOfStrip(enemy_tower_health[k], iar.frame.strips["enemy"][k])
              /\ HealthOfStrip(our_tower_health[k], iar.frame.strips["our"][k])
    /\ (entry = "scan_battlefield" /\ iar.at = now /\ iar.frame.hits = {}) =>
          result = "returned"

\* a scan of a frame with the enemy strips outside the frame, our king's strip
\* 30/40 matching and our left strip with no matching pixel
C12_Witness ==
    /\ ScanCompleted
    /\ iar.frame.strips["enemy"]["left"].total = 0
    /\ enemy_tower_health["left"] = <<1, 1>>
    /\ our_tower_health["king"] = <<30, 40>>
    /\ our_tower_health["left"] = <<0, 51>>

\* a scan call that finds the limiter closed: less than ScanInterval after the
\* previous completed scan
RateLimitedCall ==
    pc = "idle" /\ now' = now /\ entry' = "scan_battlefield" /\ now - last_scan_time < ScanInterval

\* a scan call that captured a frame and replaced the unit list
RefreshingCall ==
    /\ pc = "idle" /\ now' = now /\ entry' = "scan_battlefield"
    /\ iar' # iar
    /\ ~(result' = "raised" /\ exc' = "ZeroDivisionError")

\* the part of C13 that the code keeps: a call that finds the limiter closed
\* captures no frame and writes nothing
RateLimitedCallChangesNothing ==
    [][RateLimitedCall => UNCHANGED <<iar, trackerVars>>]_vars

\* C13: two scans that refresh GameState are at least 0.5 s apart, and a scan
\* call less than 0.5 s after the previous completed scan captures no frame and
\* leaves units, tower healths, estimate, lane pressures and last-scan time
\* unchanged. Every listed unit carries the clock reading of the refreshing
\* scan that listed it, so a refresh is 0.5 s after the previous one only if
\* the units it replaces are that old.
C13_RefreshesHalfSecondApart ==
    [][/\ RateLimitedCall => UNCHANGED <<iar, trackerVars>>
       /\ RefreshingCall =>
             \A k \in 1..Len(enemy_units) : now - enemy_units[k].timestamp >= ScanInterval]_vars

\* a scan call that passed the limiter and captured a frame
CapturingCall ==
    /\ pc = "idle" /\ now' = now /\ entry' = "scan_battlefield"
    /\ now - last_scan_time >= ScanInterval
    /\ ~env_failed'

\* the probes of DetectionZones that match in a frame, in probe order
MatchedProbes(frame) ==
    SelectSeq([i \in 1..Len(DetectionZones) |-> i], LAMBDA i : i \in frame.hits)

\* C14: after every scan that is not rate-limited the unit list is exactly
\* the units detected in the captured frame: one per matching probe, at most
\* five, in probe order, stamped with this scan's clock reading; nothing of an
\* earlier scan remains.
C14_UnitListReplacedByThisFrame ==
    [][CapturingCall =>
         LET m == MatchedProbes(iar'.frame)
         IN  /\ Len(enemy_units') = Len(m)
             /\ Len(enemy_units') <= 5
             /\ \A k \in 1..Len(m) :
                    /\ enemy_units'[k].position = DetectionZones[m[k]].pos
                    /\ enemy_units'[k].lane = DetectionZones[m[k]].lane
                    /\ enemy_units'[k].timestamp = now]_vars

\* the same for the scans whose classification of the matched probes has a
\* sample inside the frame
UnitListReplacedWhenClassified ==
    [][(CapturingCall /\ iar'.frame.brightness # NoSamples) =>
         LET m == MatchedProbes(iar'.frame)
         IN  /\ Len(enemy_units') = Len(m)
             /\ \A k \in 1..Len(m) :
                    /\ enemy_units'[k].position = DetectionZones[m[k]].pos
                    /\ enemy_units'[k].timestamp = now]_vars

\* the steps of a cycle that follow the scan
AfterScan == {"analyze", "decide", "dispatch", "learn", "emote", "delay"}

\* C15: within a cycle, once the scan has returned, no later step (analysis,
\* decide, dispatch and its execution routine, recording, emote, delay) nor the
\* handling of a failure changes any field of GameState.
C15_SnapshotWithinCycle ==
    [][(pc \in AfterScan \cup {"caught"}) => (gameVars' = gameVars)]_vars

\* a cycle that has tapped, recorded and reached its delay over a state with
\* an opponent-play history
C15_Witness ==
    /\ pc = "delay"
    /\ records > 0
    /\ Len(taps) > 0
    /\ last_enemy_plays # <<>>

\* a step that is a direct select_optimal_card call
SelectCall == entry' = "select_optimal_card" /\ selects' = selects + 1

\* C16: select_optimal_card with an empty available-slot set fails with the
\* no-slots condition (ValueError) for every situation tag, with or without a
\* tactical context, and leaves the recently-used window unchanged.
C16_EmptySetFails ==
    [][(SelectCall /\ selected'.available = <<>>) =>
          /\ result' = "raised" /\ exc' = "ValueError"
          /\ ~selected'.present
          /\ recent_cards' = recent_cards]_vars

\* an empty set passed with the real tactical context to a selector whose
\* window holds slots
C16_Witness ==
    /\ entry = "select_optimal_card" /\ selected.available = <<>>
    /\ selected.with_ai /\ ~supplied.present
    /\ result = "raised" /\ exc = "ValueError"
    /\ Len(recent_cards) >= 2

\* what C17 asks of a call: it returns a member of the set, the only member
\* when there is one
ReturnsMember ==
    /\ result' = "returned" /\ selected'.present
    /\ \E k \in 1..Len(selected'.available) : selected'.index = selected'.available[k]
    /\ Len(selected'.available) = 1 => selected'.index = selected'.available[1]

\* C17: select_optimal_card called with a non-empty available-slot set returns
\* a slot that is a member of that set, for every recently-used window,
\* situation and jitter outcome; with exactly one slot it returns that slot.
C17_ReturnsMemberOfSet ==
    [][(SelectCall /\ selected'.available # <<>>) => ReturnsMember]_vars

\* the same for the calls made without a tactical context or with one whose
\* analysis succeeds
ReturnsMemberWhenAnalysed ==
    [][(SelectCall /\ selected'.available # <<>> /\ (selected'.with_ai => supplied.present))
          => ReturnsMember]_vars

\* C18: after every successful select_optimal_card call the returned slot has
\* been pushed into the recently-used window: it is the newest entry, the
\* oldest one being evicted when the window already held 4; also when the
\* returned slot was in the window before the call.
C18_ReturnedSlotIsNewest ==
    [][(SelectCall /\ result' = "returned") =>
          /\ recent_cards' = DequeAppend(recent_cards, selected'.index, RecentCardsCap)
          /\ recent_cards'[Len(recent_cards')] = selected'.index]_vars

\* the same for the calls that return a slot the window does not hold
ReturnedSlotPushedWhenNew ==
    [][(SelectCall /\ result' = "returned" /\ selected'.index \notin SeqRange(recent_cards)) =>
          /\ recent_cards' = DequeAppend(recent_cards, selected'.index, RecentCardsCap)
          /\ recent_cards'[Len(recent_cards')] = selected'.index]_vars

\* the dispatch step of a cycle whose available-slot query answers the empty
\* set: nothing is tapped and no collaborator fails
EmptyQueryDispatch ==
    /\ pc = "dispatch"
    /\ hand' = <<>> /\ taps' = taps /\ ~env_failed'
    /\ GetMethod(FirstLookup(decision)).ok

\* C19: in a cycle in which the available-slot query returns the empty set,
\* the Selector is handed the empty set and raises the no-slots condition
\* (ValueError), so the cycle ends in the failure handler and no Decision is
\* recorded in BattleMemory for it.
C19_EmptyQueryRaisesNoSlots ==
    [][EmptyQueryDispatch =>
          /\ pc' = "caught" /\ exc' = "ValueError"
          /\ selects' = selects + 1 /\ selected'.available = <<>>]_vars

\* what the code does instead: the routine reports failure, the Selector is
\* not called and the Decision goes on to be recorded
EmptyQueryReportsFailure ==
    [][EmptyQueryDispatch =>
          /\ pc' = "learn" /\ success' = FALSE /\ Decided
          /\ UNCHANGED <<selects, selected, recent_cards>>]_vars

\* the score C20 describes, on the game state the analyzer reads
PushScore ==
    (IF our_elixir - enemy_elixir_estimate >= 2 THEN 3 ELSE 0)
    + (IF \A lane \in LaneSet : pressure_lanes[lane] \notin {"HIGH", "CRITICAL"} THEN 2 ELSE 0)
    + (IF now - LastPushTime >= 1500 THEN 1 ELSE 0)

\* C20: for every game state _evaluate_push_opportunity gives the score 3 (if
\* elixir advantage >= 2) + 2 (if no lane at HIGH or CRITICAL) + 1 (if 15 s
\* since the last push), shouldPush iff the score is >= 4, and push type
\* beatdown iff the advantage is >= 4, else pressure; with our elixir 8, the
\* estimate 2 and no lane at HIGH+ that is score >= 4, shouldPush, beatdown.
C20_PushOpportunityScore ==
    (pc = "idle" /\ entry = "_evaluate_push_opportunity") =>
        /\ result = "returned"
        /\ analysis.opportunity_score = PushScore
        /\ analysis.should_push = (PushScore >= 4)
        /\ analysis.push_type = (IF our_elixir - enemy_elixir_estimate >= 4
                                 THEN "beatdown" ELSE "pressure")

\* what the code does instead: the call raises for every game state
PushEvaluationRaises ==
    (pc = "idle" /\ entry = "_evaluate_push_opportunity") =>
        result = "raised" /\ exc = "TypeError"

\* a recorded play's cost, 4 when the play carries none
CostOf(p) == IF p.cost = NoKey THEN 4 ELSE p.cost

\* at least 4 opponent plays are recorded and the last 4 cost at most 12
UnderCycling ==
    LET n == Len(last_enemy_plays)
    IN  /\ n >= 4
        /\ CostOf(last_enemy_plays[n - 3]) + CostOf(last_enemy_plays[n - 2])
           + CostOf(last_enemy_plays[n - 1]) + CostOf(last_enemy_plays[n]) <= 12

OvertimeAdvantage == battle_elapsed > 18000 /\ analysis.elixir_advantage >= 3

\* C21: the under-cycling trigger fires exactly when at least 4 opponent plays
\* are recorded and the last 4 cost at most 12 in sum; when it fires and no
\* higher-precedence trigger nor the overtime advantage holds, the Decision is
\* cycle_break with priority 4 and confidence 0.85, and no other Decision is
\* cycle_break; with fewer than 4 plays it never fires.
C21_UnderCyclingTrigger ==
    Decided =>
        /\ DetectOpponentCycleVulnerability(last_enemy_plays) = UnderCycling
        /\ Len(last_enemy_plays) < 4 => decision.action # "cycle_break"
        /\ decision.action = "cycle_break" <=>
              /\ UnderCycling
              /\ ~UrgentDefenseTrigger /\ ~OverwhelmingPushTrigger /\ ~SpellPatternTrigger
              /\ ~OvertimeAdvantage
        /\ decision.action = "cycle_break" =>
              decision.priority = 4 /\ decision.confidence = 85

\* cycle_break decided on five recorded plays whose last four cost exactly 12
C21_Witness ==
    /\ Decided /\ decision.action = "cycle_break"
    /\ Len(last_enemy_plays) = 5 /\ UnderCycling

\* the sum of the three lanes' threat ordinals
TotalPressure ==
    ThreatValue(pressure_lanes["LEFT"]) + ThreatValue(pressure_lanes["RIGHT"])
    + ThreatValue(pressure_lanes["CENTER"])

\* C22: for every game state needs_immediate_defense holds iff the three
\* lanes' threat ordinals sum to 3 or more, and the recommended play style is
\* DEFENSIVE if it holds, else AGGRESSIVE if the elixir advantage is >= 3,
\* else CYCLE if it is <= -2, else COUNTER_PUSH; no other style is recommended.
C22_PlayStylePrecedence ==
    (pc = "idle" /\ entry = "_determine_play_style") =>
        LET adv == our_elixir - enemy_elixir_estimate
            style == analysis.recommended_play_style
        IN  /\ result = "returned"
            /\ analysis.pressure_situation.needs_immediate_defense = (TotalPressure >= 3)
            /\ style \in {"DEFENSIVE", "AGGRESSIVE", "CYCLE", "COUNTER_PUSH"}
            /\ style = "DEFENSIVE" <=> TotalPressure >= 3
            /\ style = "AGGRESSIVE" <=> (TotalPressure < 3 /\ adv >= 3)
            /\ style = "CYCLE" <=> (TotalPressure < 3 /\ adv <= -2)
            /\ style = "COUNTER_PUSH" <=> (TotalPressure < 3 /\ adv > -2 /\ adv < 3)

\* DEFENSIVE recommended on three LOW lanes (sum 3, no lane at HIGH) while the
\* elixir advantage is 6
C22_Witness ==
    /\ pc = "idle" /\ entry = "_determine_play_style"
    /\ \A l \in LaneSet : pressure_lanes[l] = "LOW"
    /\ our_elixir - enemy_elixir_estimate = 6
    /\ analysis.recommended_play_style = "DEFENSIVE"

\* C23: for every game state the priority lane the analysis carries is LEFT if
\* LEFT pressure is HIGH or CRITICAL, else RIGHT if RIGHT pressure is, else the
\* lane whose enemy flank tower has strictly lower health, and LEFT or RIGHT
\* (never CENTER) on an exact tie.
C23_PriorityLane ==
    (pc = "idle" /\ entry = "analyze_situation") =>
        LET lane == analysis.priority_lane
            left == enemy_tower_health["left"]
            right == enemy_tower_health["right"]
        IN  /\ result = "returned" /\ analysis.present
            /\ lane \in {"LEFT", "RIGHT"}
            /\ IF pressure_lanes["LEFT"] \in {"HIGH", "CRITICAL"} THEN lane = "LEFT"
               ELSE IF pressure_lanes["RIGHT"] \in {"HIGH", "CRITICAL"} THEN lane = "RIGHT"
               ELSE /\ left[1] * right[2] < right[1] * left[2] => lane = "LEFT"
                    /\ right[1] * left[2] < left[1] * right[2] => lane = "RIGHT"

\* what the code does instead: the analysis raises at its priority-lane entry
PriorityLaneRaises ==
    (pc = "idle" /\ entry = "analyze_situation") => result = "raised" /\ exc = "TypeError"

\* the situation C24 infers from an analysis
InferredSituation(a) ==
    IF a.defensive_needs # <<>> THEN "defense"
    ELSE IF a.should_push THEN "push"
    ELSE IF a.elixir_advantage <= -2 THEN "cycle"
    ELSE "counter"

\* the play-intent tag of a situation
IntentOf(situation) ==
    IF situation = "defense" THEN "defensive"
    ELSE IF situation \in {"push", "counter", "cycle"} THEN situation
    ELSE "offensive"

\* C24: a select_optimal_card call given a tactical context ignores the
\* situation argument and uses the one inferred from the context's analysis
\* (defense if defensive needs, else push if shouldPush, else cycle if elixir
\* advantage <= -2, else counter), and returns the play-intent tag that is the
\* image of that situation.
C24_SituationInferredFromContext ==
    [][(SelectCall /\ selected'.with_ai /\ selected'.available # <<>>) =>
          /\ result' = "returned"
          /\ selected'.situation \in {"defense", "push", "cycle", "counter"}
          /\ supplied.present => selected'.situation = InferredSituation(supplied)
          /\ selected'.play_intent = IntentOf(selected'.situation)]_vars

\* the same for a context whose analysis succeeds, and the intent of the
\* situation argument for a call without context
SituationInferredWhenAnalysed ==
    [][(SelectCall /\ selected'.available # <<>> /\ (selected'.with_ai => supplied.present)) =>
          /\ result' = "returned"
          /\ selected'.with_ai => selected'.situation = InferredSituation(supplied)
          /\ selected'.play_intent = IntentOf(selected'.situation)]_vars

\* C25: in every cycle the emote step follows the recording step whether the
\* execution routine reported success or failure, and an emote that fires
\* inserts no wait before the pacing delay: the clock the delay starts at is
\* the clock the emote step started at.
C25_EmoteIndependentNoWait ==
    [][/\ pc = "learn" => pc' = "emote"
       /\ pc = "emote" => now' = now]_vars

\* the part on failure alone: a failed execution is followed by the emote step
EmoteAfterFailure ==
    [][(pc = "learn" /\ ~success) => pc' = "emote"]_vars

\* the part on the wait alone: the emote step takes no time
EmoteTakesNoTime ==
    [][pc = "emote" => now' = now]_vars

\* C26: get_optimal_play_position returns a coordinate without failing for
\* every card category, lane and intent tag, with or without a tactical
\* context and whatever units are tracked in the target lane.
C26_PlayPositionTotal ==
    (pc = "idle" /\ entry = "get_optimal_play_position") =>
        /\ result = "returned"
        /\ decision.target.counter_position[1] > 0
        /\ decision.target.counter_position[2] > 0

\* the same for the calls whose target lane holds no tracked unit, and for the
\* intents other than counter
PlayPositionTotalOffCounter ==
    (/\ pc = "idle" /\ entry = "get_optimal_play_position"
     /\ \/ decision.type # "counter"
        \/ \A k \in 1..Len(enemy_units) : enemy_units[k].lane # decision.lane) =>
        /\ result = "returned"
        /\ decision.target.counter_position[1] > 0
        /\ decision.target.counter_position[2] > 0

\* C27: for every frame size a scan that is not rate-limited and captured its
\* frame completes without failure: samples outside the frame are skipped in
\* detection, in classification (also when a probe matched and none of its
\* classification neighbourhood is inside the frame) and in the tower-health
\* estimate.
C27_ScanCompletesOnEveryFrame ==
    [][CapturingCall => result' = "returned"]_vars

\* no lane holds two matching probes of the frame
OneMatchPerLane(frame) ==
    \A i, j \in frame.hits : DetectionZones[i].lane = DetectionZones[j].lane => i = j

\* the claim for the frames alone in which no lane holds two matching probes,
\* where no two threat levels are compared: the scan of a frame whose matched
\* probe has no classification sample inside it still fails
ScanCompletesWithOneMatchPerLane ==
    [][(CapturingCall /\ OneMatchPerLane(iar'.frame)) => result' = "returned"]_vars

\* the part of C27 that the code keeps: with one match per lane at most, the
\* scan completes whenever the classification has a sample inside the frame or
\* no probe matched, whichever strips and probes are outside the frame
ScanCompletesWhenClassified ==
    [][(/\ CapturingCall /\ OneMatchPerLane(iar'.frame)
        /\ (iar'.frame.brightness # NoSamples \/ iar'.frame.hits = {})) =>
          result' = "returned"]_vars

\* a scan fails on the division only when a probe matched and no
\* classification sample is inside the frame
DivisionFailsOnlyWithoutSamples ==
    [][(CapturingCall /\ result' = "raised" /\ exc' = "ZeroDivisionError") =>
          (iar'.frame.brightness = NoSamples /\ iar'.frame.hits # {})]_vars

\* the score before jitter as C28 gives it: 50, plus 30 when the slot's
\* category is among the situation's priorities, minus (4 - i) * 10 when the
\* slot is at index i of the recently-used window, plus 15 for each synergy
\* partner among the last two recently-used slots
StatedScore(card_index, situation, recent) ==
    LET last_two == {recent[k] : k \in {j \in 1..Len(recent) : j >= Len(recent) - 1}}
    IN  50 + (IF EstimateCardType(card_index) \in SituationPriorities(situation)
              THEN 30 ELSE 0)
           - (IF \E k \in 1..Len(recent) : recent[k] = card_index
              THEN (4 - IndexIn(recent, card_index)) * 10 ELSE 0)
           + 15 * Cardinality({c \in CardSynergies(card_index) : c \in last_two})

\* the scores of a returning call are the stated ones, each draw is at most 5
\* in absolute value, and the returned slot has the greatest stated score
\* plus draw
ScoredAsStated ==
    LET sel == selected'
        n == Len(sel.available)
        final(k) == StatedScore(sel.available[k], sel.situation, recent_cards)
                        + sel.jitter[k]
    IN  /\ \A k \in 1..n :
              /\ CalculateCardScore(sel.available[k], EstimateCardType(sel.available[k]),
                                    sel.situation, sel.with_ai, recent_cards)
                    = StatedScore(sel.available[k], sel.situation, recent_cards)
              /\ sel.jitter[k] >= -5 /\ sel.jitter[k] <= 5
        /\ \E k \in 1..n : /\ sel.available[k] = sel.index
                           /\ \A j \in 1..n : final(k) >= final(j)

\* C28: for every candidate slot, with or without a tactical context, the
\* score before jitter is 50 + 30 (category among the situation's priorities)
\* - (4 - i) * 10 (slot at index i of the recently-used window) + 15 per
\* synergy partner among the last two recently-used slots; the jitter is at
\* most 5 in absolute value and the returned slot has the maximal final score.
C28_ScoreAndMaximalSlot ==
    [][(SelectCall /\ result' = "returned") => ScoredAsStated]_vars

\* the same for the calls that pass a tactical context
ScoredAsStatedWithContext ==
    [][(SelectCall /\ result' = "returned" /\ selected'.with_ai) => ScoredAsStated]_vars

\* without a tactical context the score has every stated term but the synergy
\* term, and the returned slot is the one of greatest such score plus draw
ScoredWithoutSynergyWithoutContext ==
    [][(SelectCall /\ result' = "returned" /\ ~selected'.with_ai) =>
          LET sel == selected'
              n == Len(sel.available)
              final(k) == StatedScore(sel.available[k], sel.situation, recent_cards)
                              - CalculateSynergyBonus(sel.available[k], recent_cards)
                              + sel.jitter[k]
          IN  \E k \in 1..n : /\ sel.available[k] = sel.index
                              /\ \A j \in 1..n : final(k) >= final(j)]_vars

\* the engine has just slept for the pacing delay of the analysis handed to it
DelayCall == pc = "idle" /\ entry' = "_calculate_human_like_delay" /\ now' # now

\* the base of the delay as C29 gives it, in 1/100 s
StatedBase(needs) ==
    IF \E k \in 1..Len(needs) : needs[k].urgency >= 4 THEN 10
    ELSE IF \E k \in 1..Len(needs) : needs[k].urgency = 3 THEN 20
    ELSE 30

\* C29: the pacing delay lies between 0.05 s and 0.45 s; its base is 0.3 s,
\* 0.2 s when the greatest urgency is 3 and 0.1 s when it is 4 or more,
\* multiplied by 1 - min(1, 0.2 * number of needs), plus a jitter of 0.05 to
\* 0.15 s; with five or more needs only the jitter remains; and for a fixed
\* jitter the delay never increases when needs are added.
C29_PacingDelay ==
    [][DelayCall =>
         LET needs == analysis'.defensive_needs
             n == Len(needs)
             d == now' - now
         IN  /\ d >= 5 /\ d <= 45
             /\ \E v \in 5..15 : 5 * d = StatedBase(needs) * (5 - Min2(5, n)) + 5 * v
             /\ n >= 5 => (d >= 5 /\ d <= 15)
             /\ \A k \in 0..n, v \in 5..15 :
                    CalculateHumanLikeDelay([analysis' EXCEPT !.defensive_needs =
                                                            SubSeq(needs, 1, k)], v)
                        >= CalculateHumanLikeDelay(analysis', v)]_vars

\* the delay of an analysis of six needs, of urgency 4 at most, with the
\* smallest jitter: 0.05 s
C29_Witness ==
    /\ entry = "_calculate_human_like_delay"
    /\ Len(analysis.defensive_needs) = 6
    /\ \E k \in 1..6 : analysis.defensive_needs[k].urgency = 4
    /\ now = ClockStart + 5

\* the delay of an analysis of two needs of urgency 3 with the greatest
\* jitter: 0.2 * 0.6 + 0.15 = 0.27 s
DelayOfTwoHighNeeds ==
    /\ entry = "_calculate_human_like_delay"
    /\ Len(analysis.defensive_needs) = 2
    /\ \A k \in 1..2 : analysis.defensive_needs[k].urgency = 3
    /\ now = ClockStart + 27

\* the Decision of the tempo fallback for an elapsed battle time in one of
\* three ranges, the middle one closed or open at 120 s
TempoRanges(upper_closed) ==
    LET mid_end == IF upper_closed THEN 12000 ELSE 11999
    IN  /\ battle_elapsed < 3000 =>
              decision.action = "conservative_opening" /\ decision.priority = 2
        /\ (battle_elapsed >= 3000 /\ battle_elapsed <= mid_end) =>
              decision.action = "tempo_control" /\ decision.priority = 3
        /\ battle_elapsed > mid_end =>
              decision.action = "endgame_tactics" /\ decision.priority = 4

\* C30: when no higher-precedence trigger is satisfied the tempo fallback maps
\* the elapsed battle time to exactly one action: conservative_opening
\* (priority 2) below 30 s, tempo_control (priority 3) from 30 s up to 120 s,
\* endgame_tactics (priority 4) above 120 s, with no gap and no overlap, also
\* at exactly 30 s and exactly 120 s.
C30_TempoFallbackRanges ==
    (Decided /\ HighestTrigger = 5) => TempoRanges(TRUE)

\* the ranges the code keeps: tempo_control from 30 s to below 120 s,
\* endgame_tactics from 120 s on
TempoFallbackHalfOpenRanges ==
    (Decided /\ HighestTrigger = 5) => TempoRanges(FALSE)

\* the fallback decided at exactly 30 s and at exactly 120 s
TempoFallbackAtThirty ==
    Decided /\ HighestTrigger = 5 /\ battle_elapsed = 3000

TempoFallbackAtOneTwenty ==
    Decided /\ HighestTrigger = 5 /\ battle_elapsed = 12000

\* every tracked unit sits at one of the probe positions, at most 285 down the
\* frame, with threat LOW or MEDIUM, and no lane pressure is HIGH or CRITICAL
ScannedThreatsAreLow ==
    /\ \A k \in 1..Len(enemy_units) :
          /\ \E i \in 1..Len(DetectionZones) :
                /\ enemy_units[k].position = DetectionZones[i].pos
                /\ enemy_units[k].lane = DetectionZones[i].lane
          /\ enemy_units[k].position[2] <= 285
          /\ enemy_units[k].threat_level \in {"LOW", "MEDIUM"}
    /\ \A l \in LaneSet : pressure_lanes[l] \notin {"HIGH", "CRITICAL"}

\* C31: every unit a scan produces sits at one of the five probe positions,
\* whose vertical coordinates are at most 285, so its threat is LOW or MEDIUM:
\* after any sequence of scans no tracked unit and no lane pressure is HIGH or
\* CRITICAL, the defensive-needs list computed from the scanned state is
\* empty, and the urgent-defense trigger does not fire.
C31_ScannedStateNeedsNoDefense ==
    /\ ScannedThreatsAreLow
    /\ LET needs == AssessDefensiveNeeds(enemy_units, FixedRnd)
       IN  needs.ok /\ needs.val = <<>>
    /\ ~UrgentDefenseTrigger

\* the part of C31 that the code keeps: the threats are low, no computation of
\* the needs yields a need, and the urgent-defense trigger does not fire
ScannedStateListsNoNeed ==
    /\ ScannedThreatsAreLow
    /\ \A rnd \in Rnds : AssessDefensiveNeeds(enemy_units, rnd).val = <<>>
    /\ ~UrgentDefenseTrigger

\* the needs are computed, and empty, whenever no unit is tracked
NeedsComputedWithoutUnits ==
    enemy_units = <<>> =>
        LET needs == AssessDefensiveNeeds(enemy_units, FixedRnd)
        IN  needs.ok /\ needs.val = <<>>

\* a scan tracked units at both bridges
BridgeUnitsTracked ==
    /\ Len(enemy_units) = 2
    /\ \A k \in 1..2 : enemy_units[k].threat_level = "MEDIUM"
    /\ pressure_lanes["LEFT"] = "MEDIUM" /\ pressure_lanes["RIGHT"] = "MEDIUM"

\* the Decisions the decide step can emit on the game state as it is, for an
\* analysis whose elixir advantage is the one of that state
DecisionsOnGameState ==
    {MakeStrategicDecision(MkAnalysis(<<>>, p, our_elixir - enemy_elixir_estimate), bt,
                           our_elixir, enemy_elixir_estimate, last_enemy_plays, "fireball") :
        p \in BOOLEAN, bt \in BattleTimes}

\* C32: across any sequence of scans and decision cycles our resource level
\* stays at its initial 0 and the opponent-play history stays empty, so after
\* every completed scan the opponent estimate is 10, the elixir advantage is
\* never positive, and the overwhelming-push, spell-bait, overtime and
\* under-cycling triggers never fire.
C32_ResourceAndHistoryNeverWritten ==
    /\ our_elixir = 0
    /\ last_enemy_plays = <<>>
    /\ last_scan_time # 0 => enemy_elixir_estimate = 10
    /\ our_elixir - enemy_elixir_estimate <= 0
    /\ ~OverwhelmingPushTrigger /\ ~SpellPatternTrigger /\ ~AdvancedOpportunityTrigger
    /\ \A d \in DecisionsOnGameState :
          d.action \in {"conservative_opening", "tempo_control", "endgame_tactics"}

\* the scan of the second battle on one engine has completed, with a unit
\* tracked and the estimate at 10
C32_Witness ==
    /\ pc = "analyze" /\ battles = 2 /\ cycles = 1
    /\ last_scan_time = now /\ Len(enemy_units) > 0
    /\ enemy_elixir_estimate = 10 /\ our_elixir = 0 /\ last_enemy_plays = <<>>

\* no step of a scan, an analysis, a decision, an execution, a learning step
\* or a selection writes our resource level or the opponent-play history
ResourceAndHistoryUnwritten ==
    [][our_elixir' = our_elixir /\ last_enemy_plays' = last_enemy_plays]_vars

\* an execution routine has run to its return, no collaborator raising
RoutineReturned == pc = "dispatch" /\ pc' = "learn"

\* the taps sent by the step
SentTaps == SubSeq(taps', Len(taps) + 1, Len(taps'))

\* taps in pairs: a tap on the hand anchor of a slot, then a placement tap
InPairs(sent) ==
    /\ Len(sent) % 2 = 0
    /\ \A k \in 1..Len(sent) :
          IF k % 2 = 1
          THEN /\ sent[k].kind = "hand"
               /\ sent[k].slot \in 0..3 /\ sent[k].pos = HandCoords[sent[k].slot + 1]
          ELSE sent[k].kind = "place"

\* The answers the routine's own slot query may have got in the step; the
\* follow-up's is the hand after it. With no change of the answer in the step
\* it is the hand before it; with one change it is that or, when the change
\* came first, the hand after it; with more changes it is any answer.
FirstAnswers ==
    IF hand_changes' = hand_changes THEN {hand}
    ELSE IF hand_changes' = hand_changes + 1 THEN {hand, hand'}
    ELSE Hands

NoTapOnEmptyAnswer ==
    /\ pc = "learn" /\ ~success /\ taps = <<>> /\ hand = <<>>

\* the follow-up was answered the empty set after the routine's own pair
NoFollowUpTapOnEmptyAnswer ==
    /\ pc = "learn" /\ success /\ Len(taps) = 2 /\ hand = <<>>
    /\ decision.target.threat.threat_level = "CRITICAL"

\* the fields of the tracker's GameState object, tower healths as <<num, den>>
GameStateNow ==
    [enemy_units |-> enemy_units, pressure_lanes |-> pressure_lanes,
     our_elixir |-> our_elixir, enemy_elixir_estimate |-> enemy_elixir_estimate,
     our_tower_health |-> our_tower_health, enemy_tower_health |-> enemy_tower_health,
     last_enemy_plays |-> last_enemy_plays]

\* two readings of a context show the same values
SameContext(c, d) ==
    /\ c.enemy_units = d.enemy_units /\ c.pressure_lanes = d.pressure_lanes
    /\ c.our_elixir = d.our_elixir /\ c.enemy_elixir_estimate = d.enemy_elixir_estimate
    /\ c.last_enemy_plays = d.last_enemy_plays
    /\ \A k \in TowerKeys :
          /\ c.our_tower_health[k][1] * d.our_tower_health[k][2]
                = d.our_tower_health[k][1] * c.our_tower_health[k][2]
          /\ c.enemy_tower_health[k][1] * d.enemy_tower_health[k][2]
                = d.enemy_tower_health[k][1] * c.enemy_tower_health[k][2]

\* the records of the success and failure logs
LoggedRecords ==
    {successful_plays[k] : k \in 1..Len(successful_plays)}
        \cup {failed_plays[k] : k \in 1..Len(failed_plays)}

\* C34: the game-state context stored with a play record keeps the values the
\* game state had in the cycle in which the play was recorded: a later scan
\* that replaces the unit list or rewrites tower healths, the resource
\* estimate or lane pressures does not change the context of any record
\* already in the success or failure log.
C34_RecordContextKept ==
    [][\A rec \in LoggedRecords :
          SameContext(RecordContext(rec, GameStateNow'), RecordContext(rec, GameStateNow))]_vars

\* the part of C34 that the code keeps: only a scan changes what the context
\* of a logged record shows
RecordContextChangedByScansOnly ==
    [][(\E rec \in LoggedRecords :
           ~SameContext(RecordContext(rec, GameStateNow'), RecordContext(rec, GameStateNow)))
         => pc = "scan"]_vars

====
